---------------------------- MODULE Spec2Model ----------------------------
(***************************************************************************)
(* Verification model of the maritime-safety-platform analysis pipeline:   *)
(* topology builder, ACH calculator, space detector, opening detector,     *)
(* space data generator and the run_analysis driver.                       *)
(*                                                                         *)
(* Numbers.  The program computes with Python floats.  The model uses      *)
(* fixed point integers: ACH values, edge weights and factors in           *)
(* thousandths, opening areas in tenths of a square metre.  Division       *)
(* truncates.                                                              *)
(***************************************************************************)
EXTENDS Integers, Sequences, FiniteSets, TLC

VARIABLES
    stage,              \* position of the pipeline run that is in progress
    spaces,             \* SpaceDetector.spaces / main.py self.spaces
    openings,           \* OpeningDetector.openings / main.py self.openings
    graph_nodes,        \* TopologyBuilder.space_graph: nodes, insertion order
    graph_edges,        \* TopologyBuilder.space_graph: edges, insertion order
    isolated_spaces,    \* build_topology result "isolated_spaces"
    ach_rates,          \* AchCalculator.ach_rates
    ventilation_paths,  \* AchCalculator.ventilation_paths
    updated_rates,      \* what update_ach_for_opening_state returned last
    voxel_data,         \* the voxelizer's result: empty voxels, voxel size
    max_seed_points,    \* SpaceDetector.max_seed_points
    build_stack,        \* the _build_octree calls in progress, outermost first
    filled_spaces,      \* the grid _remove_external_space returned
    space_adjacency,    \* SpaceDetector.space_adjacency: edges, insertion order
    run,                \* number of the pipeline run on this grid
    first_run,          \* what the first run on this grid produced
    final_data,         \* main.py self.final_data
    result,             \* what run_analysis returned
    data,               \* a record handed to validate_space_data
    validation,         \* what validate_space_data returned
    parsed_model,       \* main.py self.parsed_model: the mesh, as its occupancy
    config,             \* config.py Config.config of the global instance
    component_params    \* what the analysis components read from config in __init__

ventVars ==
    <<graph_nodes, graph_edges, isolated_spaces, ach_rates, ventilation_paths,
      updated_rates>>
gridVars ==
    <<voxel_data, max_seed_points, build_stack, filled_spaces, space_adjacency, run, first_run>>

dataVars == <<final_data, result, data, validation, parsed_model, config, component_params>>

vars == <<stage, spaces, openings, ventVars, gridVars, dataVars>>

-----------------------------------------------------------------------------
(* Bounds of the model *)

MaxOpenings == 3
NumSpaces == 3
NumPathSpaces == 4

-----------------------------------------------------------------------------
(* Generic helpers on sequences *)

Range(s) == {s[i] : i \in 1..Len(s)}

RECURSIVE Concat(_)
Concat(ss) == IF Len(ss) = 0 THEN <<>> ELSE Head(ss) \o Concat(Tail(ss))

RECURSIVE SumSeq(_)
SumSeq(s) == IF Len(s) = 0 THEN 0 ELSE Head(s) + SumSeq(Tail(s))

Prefix(s, n) == IF Len(s) <= n THEN s ELSE SubSeq(s, 1, n)

SeqsUpTo(S, n) == UNION {[1..k -> S] : k \in 0..n}

Min2(a, b) == IF a <= b THEN a ELSE b
Max2(a, b) == IF a >= b THEN a ELSE b
Abs(a) == IF a >= 0 THEN a ELSE 0 - a

-----------------------------------------------------------------------------
(* Configuration (config.py DEFAULT_CONFIG), fixed point *)

high_ach == 10000
medium_ach_range == <<5000, 8000>>
low_ach_range == <<1000, 4000>>
path_decay == 600

\* "space_detection": min_space_volume, in cubic metres
min_space_volume == 5

\* "voxelization": min_voxel_size (0.125 m), in sixteenths of a metre
min_voxel_size == 2

\* the entries of DEFAULT_CONFIG that the components and the metadata read;
\* base_voxel_size (1.0 m) in sixteenths of a metre
DEFAULT_CONFIG ==
    [voxelization |-> [base_voxel_size |-> 16, min_voxel_size |-> min_voxel_size],
     space_detection |-> [min_space_volume |-> min_space_volume],
     ventilation |-> [high_ach_rate |-> high_ach]]

\* PlatformAnalyzer.__init__: every component reads its parameters from the
\* configuration into fields of its own
ConstructComponents(cfg) ==
    [voxelizer |-> [base_voxel_size |-> cfg.voxelization.base_voxel_size,
                    min_voxel_size |-> cfg.voxelization.min_voxel_size],
     space_detector |-> [min_space_volume |-> cfg.space_detection.min_space_volume],
     ach_calculator |-> [high_ach |-> cfg.ventilation.high_ach_rate]]

\* x ** opening_influence with opening_influence = 0.7; x in tenths, result
\* in thousandths, rounded to nearest.
PowTable ==
  << 0, 200, 324, 431, 527, 616, 699, 779, 855, 929, 1000, 1069,
     1136, 1202, 1266, 1328, 1390, 1450, 1509, 1567, 1625, 1681, 1737, 1791,
     1846, 1899, 1952, 2004, 2056, 2107, 2158, 2208, 2257, 2307, 2355, 2404,
     2451, 2499, 2546, 2593, 2639, 2685, 2731, 2776, 2821, 2866, 2910, 2954,
     2998, 3042, 3085, 3128, 3171, 3214, 3256, 3298, 3340, 3382, 3423, 3464,
     3505, 3546, 3587, 3627, 3667, 3707, 3747, 3787, 3826, 3865, 3905, 3943,
     3982, 4021, 4059, 4098, 4136, 4174, 4212, 4250, 4287, 4325, 4362, 4399,
     4436, 4473, 4510, 4546, 4583, 4619, 4656, 4692, 4728, 4764, 4799, 4835,
     4871, 4906, 4941, 4977, 5012, 5047, 5082, 5117, 5151, 5186, 5221, 5255,
     5289, 5324, 5358, 5392, 5426, 5460, 5493, 5527, 5561, 5594, 5628, 5661,
     5694, 5727, 5760, 5793, 5826, 5859, 5892, 5925, 5957, 5990, 6022, 6055,
     6087, 6119, 6151, 6183, 6216, 6247, 6279, 6311, 6343, 6375, 6406, 6438,
     6469, 6501, 6532, 6563, 6595, 6626, 6657, 6688, 6719, 6750, 6781, 6811,
     6842, 6873, 6903, 6934, 6964, 6995, 7025, 7056, 7086, 7116, 7146, 7176,
     7206, 7236, 7266, 7296, 7326, 7356, 7386, 7415, 7445, 7474, 7504, 7534,
     7563, 7592, 7622, 7651, 7680, 7709, 7739, 7768, 7797, 7826, 7855, 7884,
     7912, 7941, 7970, 7999, 8027, 8056, 8085, 8113, 8142 >>

OpeningAreaFactor(total_opening_area) == PowTable[total_opening_area + 1]

-----------------------------------------------------------------------------
(* Identifiers *)

exterior_id == "space_exterior"

\* str.startswith("space_exterior") over the identifiers of the model
StartsWithExterior(id) == id \in {"space_exterior", "space_exterior_2"}

SpaceIds ==
    <<"space_000", "space_001", "space_002", "space_003", "space_004",
      "space_005", "space_006", "space_007", "space_008", "space_009",
      "space_010", "space_011", "space_012", "space_013", "space_014">>

OpeningId(k) == <<"opening_001", "opening_002", "opening_003", "opening_004",
                  "opening_005", "opening_006", "opening_007", "opening_008",
                  "opening_009", "opening_010", "opening_011", "opening_012",
                  "opening_013", "opening_014", "opening_015", "opening_016">>[k]

-----------------------------------------------------------------------------
(* TopologyBuilder: the graph is a node list and an edge list, both in      *)
(* insertion order (networkx keeps nodes and adjacency in dicts).           *)

NoEdge == 0

EdgeIndex(E, u, v) ==
    LET hits == {i \in 1..Len(E) : {E[i].u, E[i].v} = {u, v}}
    IN  IF hits = {} THEN NoEdge ELSE CHOOSE i \in hits : TRUE

HasEdge(E, u, v) == EdgeIndex(E, u, v) # NoEdge

\* G[u]: the neighbours of u in adjacency order, the order in which the
\* edges at u were first added
RECURSIVE Adj(_, _)
Adj(E, u) ==
    IF Len(E) = 0 THEN <<>>
    ELSE LET e == Head(E)
             here == IF e.u = u THEN <<e.v>>
                     ELSE IF e.v = u THEN <<e.u>> ELSE <<>>
         IN  here \o Adj(Tail(E), u)

\* the nodes reachable from u (nx.has_path, nx.connected_components)
RECURSIVE ReachFrom(_, _)
ReachFrom(E, S) ==
    LET T == S \cup {E[i].v : i \in {j \in 1..Len(E) : E[j].u \in S}}
                \cup {E[i].u : i \in {j \in 1..Len(E) : E[j].v \in S}}
    IN  IF T = S THEN S ELSE ReachFrom(E, T)

HasPath(E, u, v) == v \in ReachFrom(E, {u})

\* nx.connected_components: components in the order of their first node
RECURSIVE ConnectedComponents(_, _, _)
ConnectedComponents(N, E, seen) ==
    IF Len(N) = 0 THEN <<>>
    ELSE IF Head(N) \in seen THEN ConnectedComponents(Tail(N), E, seen)
    ELSE LET c == ReachFrom(E, {Head(N)})
         IN  <<c>> \o ConnectedComponents(Tail(N), E, seen \cup c)

\* opening weight, build_topology: 1.0 without an area, 1/area, 10 for area <= 0
NoArea == -1

\* every opening weighed 1.0, whatever its area
UnitWeight(opening) == 1000

OpeningWeight(opening) ==
    IF opening.area = NoArea THEN 1000
    ELSE IF opening.area > 0 THEN 10000 \div opening.area
    ELSE 10000

\* the edge-building loop body of build_topology for one opening whose
\* connects list already has its exterior endpoint appended
AddOpeningEdge(N, E, opening) ==
    LET cs == opening.connects
    IN  IF Len(cs) # 2 THEN E
        ELSE IF ~(cs[1] \in Range(N) /\ cs[2] \in Range(N)) THEN E
        ELSE LET w == OpeningWeight(opening)
                 i == EdgeIndex(E, cs[1], cs[2])
             IN  IF i # NoEdge
                 THEN [E EXCEPT ![i] =
                          [@ EXCEPT !.openings = Append(@, opening.id),
                                    !.count = Len(E[i].openings) + 1,
                                    !.weight = Min2(@, w),
                                    !.opening_types = Append(@, opening.type)]]
                 ELSE Append(E, [u |-> cs[1], v |-> cs[2],
                                 openings |-> <<opening.id>>, count |-> 1,
                                 weight |-> w,
                                 opening_types |-> <<opening.type>>,
                                 is_repair |-> FALSE])

\* connected_spaces.append(exterior_id) on the opening's own list
AppendExterior(opening) ==
    IF Len(opening.connects) = 1
    THEN [opening EXCEPT !.connects = Append(@, exterior_id)]
    ELSE opening

RECURSIVE AddOpeningEdges(_, _, _)
AddOpeningEdges(N, E, ops) ==
    IF Len(ops) = 0 THEN E
    ELSE AddOpeningEdges(N, AddOpeningEdge(N, E, AppendExterior(Head(ops))),
                         Tail(ops))


\* the simple paths of the graph between two nodes, as
\* nx.all_simple_paths enumerates them (depth-first, adjacency order)
RECURSIVE SimplePathsFrom(_, _, _, _)
SimplePathsFrom(E, visited, target, depth) ==
    LET nbrs == Adj(E, visited[Len(visited)])
        Sub(child) ==
            IF child \in Range(visited) THEN <<>>
            ELSE IF child = target THEN <<Append(visited, child)>>
            ELSE IF Len(visited) < depth
                 THEN SimplePathsFrom(E, Append(visited, child), target, depth)
                 ELSE <<>>
    IN  Concat([i \in 1..Len(nbrs) |-> Sub(nbrs[i])])

AllSimplePaths(E, source, target, depth) ==
    IF source = target THEN <<>> ELSE SimplePathsFrom(E, <<source>>, target, depth)

EdgeWeight(E, u, v) == E[EdgeIndex(E, u, v)].weight

RouteWeight(E, path) ==
    SumSeq([i \in 1..(Len(path) - 1) |-> EdgeWeight(E, path[i], path[i + 1])])

\* max(betweenness.values()) > 0: some shortest weighted path between two
\* nodes passes through a third node (edge weights are positive, so a
\* shortest path is simple)
MaxBetweennessPositive(N, E) ==
    \E i \in 1..Len(N), j \in 1..Len(N) :
       /\ i < j
       /\ LET ps == AllSimplePaths(E, N[i], N[j], Len(N))
              ws == [k \in 1..Len(ps) |-> RouteWeight(E, ps[k])]
          IN  \E k \in 1..Len(ps) :
                 /\ Len(ps[k]) >= 3
                 /\ \A l \in 1..Len(ps) : ws[k] <= ws[l]

\* _calculate_topology_properties divides by max(betweenness.values()):
\* the float division raises ZeroDivisionError when that maximum is 0
TopologyPropertiesRaise(N, E) == ~MaxBetweennessPositive(N, E)

\* self.space_properties[id]: the last space of the list with that id
SpaceVolume(sp, id) ==
    LET hits == {i \in 1..Len(sp) : sp[i].id = id}
    IN  sp[CHOOSE i \in hits : \A j \in hits : j <= i].volume

InSpaceProperties(sp, id) == \E i \in 1..Len(sp) : sp[i].id = id

\* the candidates for largest_space of one component: the loop keeps the
\* first node, in the iteration order of the component (a Python set), whose
\* volume exceeds every volume seen before and 0
LargestSpaceCandidates(sp, component) ==
    LET known == {n \in component : InSpaceProperties(sp, n)}
        big == {n \in known : /\ SpaceVolume(sp, n) > 0
                              /\ \A m \in known : SpaceVolume(sp, m) <= SpaceVolume(sp, n)}
    IN  big

RepairEdge(largest_space) ==
    [u |-> largest_space, v |-> exterior_id,
     openings |-> <<"repair_opening">>, count |-> 1, weight |-> 2000,
     opening_types |-> <<"repair">>, is_repair |-> TRUE]

\* _validate_topology: every graph the repair pass can leave, one per way
\* the set iteration can break volume ties
RECURSIVE RepairAll(_, _, _)
RepairAll(sp, comps, E) ==
    IF Len(comps) = 0 THEN {E}
    ELSE LET c == Head(comps)
             cand == LargestSpaceCandidates(sp, c)
         IN  IF exterior_id \in c \/ cand = {}
             THEN RepairAll(sp, Tail(comps), E)
             ELSE UNION {RepairAll(sp, Tail(comps), Append(E, RepairEdge(n))) :
                           n \in cand}

ValidateTopology(sp, N, E) ==
    LET components == ConnectedComponents(N, E, {})
    IN  IF Len(components) > 1 THEN RepairAll(sp, components, E) ELSE {E}

\* _find_isolated_spaces
FindIsolatedSpaces(N, E) ==
    SelectSeq(N, LAMBDA n : n # exterior_id /\ ~HasPath(E, n, exterior_id))

\* add_node for every space, then for the exterior
RECURSIVE AddNodes(_, _)
AddNodes(N, ids) ==
    IF Len(ids) = 0 THEN N
    ELSE AddNodes(IF Head(ids) \in Range(N) THEN N ELSE Append(N, Head(ids)),
                  Tail(ids))

SpaceIdList(sp) == [i \in 1..Len(sp) |-> sp[i].id]

RECURSIVE AppendExteriorAll(_)
AppendExteriorAll(ops) ==
    IF Len(ops) = 0 THEN <<>>
    ELSE <<AppendExterior(Head(ops))>> \o AppendExteriorAll(Tail(ops))

\* TopologyBuilder.build_topology
build_topology ==
    /\ stage \in {"input", "openings_detected"}
    /\ LET N == AddNodes(<<>>, Append(SpaceIdList(spaces), exterior_id))
           E == AddOpeningEdges(N, <<>>, openings)
       IN  /\ graph_nodes' = N
           /\ openings' = AppendExteriorAll(openings)
           /\ IF TopologyPropertiesRaise(N, E)
              THEN /\ graph_edges' = E
                   /\ stage' = "topology_error"
                   /\ isolated_spaces' = <<>>
              ELSE \E R \in ValidateTopology(spaces, N, E) :
                      /\ graph_edges' = R
                      /\ stage' = "topology_built"
                      /\ isolated_spaces' = FindIsolatedSpaces(N, R)
    /\ UNCHANGED <<spaces, ach_rates, ventilation_paths, updated_rates, gridVars, dataVars>>

-----------------------------------------------------------------------------
(* AchCalculator *)

cutoff == 6
max_paths == 5

\* path_decay ** (path_length - 1)
RECURSIVE DecayFactor(_)
DecayFactor(path_length) ==
    IF path_length <= 1 THEN 1000
    ELSE (DecayFactor(path_length - 1) * path_decay) \div 1000

\* 1.0 / edge_weight if edge_weight > 0 else 1.0, in tenths
EstimatedArea(edge_weight) ==
    IF edge_weight > 0 THEN 10000 \div edge_weight ELSE 10

PathEdges(E, path) == [i \in 1..(Len(path) - 1) |-> E[EdgeIndex(E, path[i], path[i + 1])]]

\* the path object built in _find_ventilation_paths
PathObject(E, path, ext_id) ==
    LET es == PathEdges(E, path)
    IN  [route |-> path,
         via |-> Concat([i \in 1..Len(es) |-> es[i].openings]),
         weight |-> SumSeq([i \in 1..Len(es) |-> es[i].weight]),
         length |-> Len(path) - 1,
         decay_factor |-> DecayFactor(Len(path) - 1),
         total_opening_area |->
             SumSeq([i \in 1..Len(es) |->
                        Len(es[i].openings) * EstimatedArea(es[i].weight)]),
         exterior |-> ext_id]

\* list.sort(key=weight): stable, ascending
RECURSIVE InsertByWeight(_, _)
InsertByWeight(sorted, p) ==
    IF Len(sorted) = 0 THEN <<p>>
    ELSE IF sorted[Len(sorted)].weight <= p.weight THEN Append(sorted, p)
    ELSE Append(InsertByWeight(SubSeq(sorted, 1, Len(sorted) - 1), p),
                sorted[Len(sorted)])

RECURSIVE SortByWeight(_)
SortByWeight(ps) ==
    IF Len(ps) = 0 THEN <<>>
    ELSE InsertByWeight(SortByWeight(SubSeq(ps, 1, Len(ps) - 1)), ps[Len(ps)])

\* the first max_paths simple paths in enumeration order
LimitPaths(all_paths) == Prefix(all_paths, max_paths)

\* AchCalculator._find_ventilation_paths, for the single exterior node
FindVentilationPaths(space_id, E, ext_id) ==
    IF ~HasPath(E, space_id, ext_id) THEN <<>>
    ELSE LET all_paths == LimitPaths(AllSimplePaths(E, space_id, ext_id, cutoff))
         IN  SortByWeight([i \in 1..Len(all_paths) |->
                              PathObject(E, all_paths[i], ext_id)])

Mean(range) == (range[1] + range[2]) \div 2

BaseAch(path_length) ==
    IF path_length = 1 THEN high_ach
    ELSE IF path_length = 2 THEN Mean(medium_ach_range)
    ELSE Mean(low_ach_range)

\* base_ach * opening_area_factor * decay_factor
Contribution(path) ==
    (((BaseAch(path.length) * OpeningAreaFactor(path.total_opening_area)) \div 1000)
        * path.decay_factor) \div 1000

\* 1.0 / (path["weight"] + 0.1)
PathWeighting(path) == 1000000 \div (path.weight + 100)

\* mutant of ClampAch: the upper limit is not applied
ClampAchNoCeiling(ach_rate) == Max2(low_ach_range[1], ach_rate)

ClampAch(ach_rate) == Max2(low_ach_range[1], Min2(ach_rate, high_ach))

\* AchCalculator._calculate_space_ach
CalculateSpaceAch(paths) ==
    IF Len(paths) = 0 THEN low_ach_range[1]
    ELSE LET total == SumSeq([i \in 1..Len(paths) |-> PathWeighting(paths[i])])
             mixed == SumSeq([i \in 1..Len(paths) |->
                                 Contribution(paths[i]) * PathWeighting(paths[i])])
         IN  ClampAch(mixed \div total)

\* space_graph.edges(): for every node in node order, its not yet listed
\* neighbours in adjacency order
RECURSIVE GraphEdgeList(_, _, _)
GraphEdgeList(N, E, seen) ==
    IF Len(N) = 0 THEN <<>>
    ELSE LET n == Head(N)
             nbrs == SelectSeq(Adj(E, n), LAMBDA m : m \notin seen)
         IN  [i \in 1..Len(nbrs) |-> <<n, nbrs[i]>>]
                \o GraphEdgeList(Tail(N), E, seen \cup {n})

\* dict.get(key, 0)
GetRate(rates, id) == IF id \in DOMAIN rates THEN rates[id] ELSE 0

SetRate(rates, id, value) ==
    [k \in DOMAIN rates \cup {id} |-> IF k = id THEN value ELSE rates[k]]

\* abs(ach1 - ach2) > 5.0 in _validate_ach_rates
SmoothingThreshold(ach1, ach2) == Abs(ach1 - ach2) > 5000

\* (x - average) * adjustment with adjustment = 0.3
Adjust(delta) == (delta * 3) \div 10

\* the loop body of _validate_ach_rates for one edge
SmoothEdge(rates, e) ==
    IF StartsWithExterior(e[1]) \/ StartsWithExterior(e[2]) THEN rates
    ELSE LET ach1 == GetRate(rates, e[1])
             ach2 == GetRate(rates, e[2])
             average == (ach1 + ach2) \div 2
         IN  IF ~SmoothingThreshold(ach1, ach2) THEN rates
             ELSE IF ach1 > ach2
             THEN SetRate(SetRate(rates, e[1], ach1 - Adjust(ach1 - average)),
                          e[2], ach2 + Adjust(average - ach2))
             ELSE SetRate(SetRate(rates, e[1], ach1 + Adjust(average - ach1)),
                          e[2], ach2 - Adjust(ach2 - average))

\* AchCalculator._validate_ach_rates
RECURSIVE ValidateAchRates(_, _)
ValidateAchRates(rates, edge_list) ==
    IF Len(edge_list) = 0 THEN rates
    ELSE ValidateAchRates(SmoothEdge(rates, Head(edge_list)), Tail(edge_list))

\* the per-space loop of calculate_ach_rates
PathsOfSpaces(sp, E) ==
    [id \in Range(SpaceIdList(sp)) |-> FindVentilationPaths(id, E, exterior_id)]

RawAchRates(paths) == [id \in DOMAIN paths |-> CalculateSpaceAch(paths[id])]

\* AchCalculator.calculate_ach_rates
calculate_ach_rates ==
    /\ stage = "topology_built"
    /\ LET paths == PathsOfSpaces(spaces, graph_edges)
       IN  /\ ventilation_paths' = paths
           /\ ach_rates' = ValidateAchRates(RawAchRates(paths),
                                            GraphEdgeList(graph_nodes, graph_edges, {}))
    /\ stage' = "ach_done"
    /\ UNCHANGED <<spaces, openings, graph_nodes, graph_edges, isolated_spaces,
                   updated_rates, gridVars, dataVars>>

-----------------------------------------------------------------------------
(* The topology and ventilation stages on a space list and an opening list *)

Volumes == <<5, 8, 0>>
Areas == {0, 20}

SpaceRecord(i, volume) == [id |-> SpaceIds[i], volume |-> volume]

SpaceLists(n) ==
    {[i \in 1..n |-> SpaceRecord(i, Volumes[v[i]])] : v \in [1..n -> DOMAIN Volumes]}

\* the endpoint lists an opening can carry: two spaces, a space and the
\* exterior, a single space, or a space that is not in the list
ConnectChoices(n) ==
    {<<SpaceIds[i], SpaceIds[j]>> : i \in 1..n, j \in 1..n} \ {<<SpaceIds[i], SpaceIds[i]>> : i \in 1..n}

EndpointChoices(n) ==
    {c \in ConnectChoices(n) : \E i \in 1..n, j \in 1..n : i < j /\ c = <<SpaceIds[i], SpaceIds[j]>>}
      \cup {<<SpaceIds[i], exterior_id>> : i \in 1..n}
      \cup {<<SpaceIds[1]>>, <<SpaceIds[1], "space_404">>}

OpeningLists(n, m) ==
    {[k \in 1..Len(c) |-> [id |-> OpeningId(k), connects |-> c[k][1],
                            area |-> c[k][2], type |-> "standard_door"]] :
        c \in SeqsUpTo(EndpointChoices(n) \X Areas, m)}

\* Python's None
None == [none |-> TRUE]

\* nothing has been assembled, returned or validated
DataIdle ==
    /\ final_data = None
    /\ result = None
    /\ data = None
    /\ validation = None
    /\ parsed_model = None
    /\ config = DEFAULT_CONFIG
    /\ component_params = ConstructComponents(DEFAULT_CONFIG)

\* the detector stages have not run
GridIdle ==
    /\ voxel_data = [empty |-> {}, shape |-> <<1, 1, 1>>, base_voxel_size |-> 1]
    /\ max_seed_points = 5000
    /\ build_stack = <<>>
    /\ filled_spaces = {}
    /\ space_adjacency = <<>>
    /\ run = 1
    /\ first_run = <<>>

InitVent ==
    /\ stage = "input"
    /\ spaces \in SpaceLists(NumSpaces)
    /\ openings \in OpeningLists(NumSpaces, MaxOpenings)
    /\ graph_nodes = <<>>
    /\ graph_edges = <<>>
    /\ isolated_spaces = <<>>
    /\ ach_rates = <<>>
    /\ updated_rates = <<>>
    /\ ventilation_paths = <<>>
    /\ GridIdle
    /\ DataIdle

NextVent == build_topology \/ calculate_ach_rates

SpecVent == InitVent /\ [][NextVent]_vars

-----------------------------------------------------------------------------
(* Claims on the topology and ventilation stages *)

AchInRange(rate) == low_ach_range[1] <= rate /\ rate <= high_ach

\* C1: after calculate_ach_rates has returned (per-space computation, then
\* the smoothing pass over the graph's edges), every value stored in
\* ach_rates lies in [low_ach_range[0], high_ach_rate].
C1_AchRatesInRange ==
    stage = "ach_done" => \A id \in DOMAIN ach_rates : AchInRange(ach_rates[id])

\* C1 witness: calculate_ach_rates has returned and its smoothing pass
\* changed the rate of at least one space.
C1_Witness ==
    /\ stage = "ach_done"
    /\ \E id \in DOMAIN ach_rates :
          ach_rates[id] # CalculateSpaceAch(ventilation_paths[id])

\* C2: after build_topology has returned, every non-exterior node has a
\* path to space_exterior and the returned isolated_spaces list is empty.
C2_NoIsolatedSpaces ==
    stage \in {"topology_built", "ach_done"} =>
        /\ isolated_spaces = <<>>
        /\ \A n \in Range(graph_nodes) :
              n # exterior_id => HasPath(graph_edges, n, exterior_id)

\* a space of the list that no opening names as an endpoint
Sealed(id) ==
    /\ id \in Range(SpaceIdList(spaces))
    /\ \A k \in 1..Len(openings) : id \notin Range(openings[k].connects)

HasRepairEdge(id) ==
    \E i \in 1..Len(graph_edges) :
       /\ {graph_edges[i].u, graph_edges[i].v} = {id, exterior_id}
       /\ graph_edges[i].is_repair

\* C6: a space without any opening ends build_topology and
\* calculate_ach_rates with a repair edge (is_repair) to space_exterior and
\* with an ACH equal to low_ach_range[0]; stated for the sealed rooms of
\* positive volume, the ones the repair pass can pick.
C6_SealedRoomLowAch ==
    stage = "ach_done" =>
        \A id \in Range(SpaceIdList(spaces)) :
            Sealed(id) /\ SpaceVolume(spaces, id) > 0 =>
                HasRepairEdge(id) /\ ach_rates[id] = low_ach_range[1]

-----------------------------------------------------------------------------
(* The same two stages on denser graphs: every pair of nodes may carry one *)
(* opening, listed in a fixed pair order or in its reverse.                *)

RECURSIVE PairsFrom(_, _)
PairsFrom(ids, i) ==
    IF i > Len(ids) THEN <<>>
    ELSE [j \in 1..(Len(ids) - i) |-> <<ids[i], ids[i + j]>>] \o PairsFrom(ids, i + 1)

PairOrder(n) == PairsFrom(Append(SubSeq(SpaceIds, 1, n), exterior_id), 1)

Reverse(s) == [i \in 1..Len(s) |-> s[Len(s) + 1 - i]]

\* the pairs of the order that carry an opening, with the opening's area;
\* NoArea marks a pair without opening
RECURSIVE Present(_, _, _)
Present(pairs, areas, k) ==
    IF k > Len(pairs) THEN <<>>
    ELSE (IF areas[k] = NoArea THEN <<>> ELSE <<<<pairs[k], areas[k]>>>>)
            \o Present(pairs, areas, k + 1)

DenseOpeningLists(n) ==
    {[k \in 1..Len(c) |-> [id |-> OpeningId(k), connects |-> c[k][1],
                            area |-> c[k][2], type |-> "standard_door"]] :
        c \in {Present(order, areas, 1) :
                 order \in {PairOrder(n), Reverse(PairOrder(n))},
                 areas \in [1..Len(PairOrder(n)) -> Areas \cup {NoArea}]}}

InitPaths ==
    /\ stage = "input"
    /\ spaces = [i \in 1..NumPathSpaces |-> SpaceRecord(i, 8)]
    /\ openings \in DenseOpeningLists(NumPathSpaces)
    /\ graph_nodes = <<>>
    /\ graph_edges = <<>>
    /\ isolated_spaces = <<>>
    /\ ach_rates = <<>>
    /\ updated_rates = <<>>
    /\ ventilation_paths = <<>>
    /\ GridIdle
    /\ DataIdle

SpecPaths == InitPaths /\ [][NextVent]_vars

\* the weights of all simple paths of at most cutoff hops from a space to
\* the exterior
AllRoutes(id) == AllSimplePaths(graph_edges, id, exterior_id, cutoff)

StoredRoutes(id) ==
    {ventilation_paths[id][k].route : k \in 1..Len(ventilation_paths[id])}

\* C7: for every space the stored path list holds at most 5 paths, in
\* ascending order of summed edge weight, and they are the lowest-weight
\* simple paths of at most 6 hops to the exterior: no simple path left out
\* is lighter than a stored one, and none is left out while fewer than 5
\* are stored.
C7_LowestWeightPaths ==
    stage = "ach_done" =>
        \A id \in DOMAIN ventilation_paths :
            LET ps == ventilation_paths[id]
                all == AllRoutes(id)
            IN  /\ Len(ps) <= max_paths
                /\ \A k \in 1..(Len(ps) - 1) : ps[k].weight <= ps[k + 1].weight
                /\ \A k \in 1..Len(ps) : ps[k].weight = RouteWeight(graph_edges, ps[k].route)
                /\ StoredRoutes(id) \subseteq Range(all)
                /\ Len(ps) = Min2(max_paths, Len(all))
                /\ \A q \in Range(all) \ StoredRoutes(id) :
                      \A k \in 1..Len(ps) : ps[k].weight <= RouteWeight(graph_edges, q)

-----------------------------------------------------------------------------
(* Space detection on the voxel grid (space_detector.py, geometry_utils.py,  *)
(* opening_detector.py).  A grid is the set of its empty voxels, a voxel the *)
(* triple of its indices; lengths are in metres.                             *)

GridX == 5
GridY == 5
GridZ == 3

OnBoundary(v, shape) ==
    \/ v[1] = 0 \/ v[1] = shape[1] - 1
    \/ v[2] = 0 \/ v[2] = shape[2] - 1
    \/ v[3] = 0 \/ v[3] = shape[3] - 1

\* squared Euclidean distance of two voxel indices
Dist2(a, b) ==
    (a[1] - b[1]) * (a[1] - b[1]) + (a[2] - b[2]) * (a[2] - b[2])
        + (a[3] - b[3]) * (a[3] - b[3])

\* the six face neighbours of the flood fill
FaceNeighbours(a, b) == Dist2(a, b) = 1

\* the voxels the breadth-first search reaches from the voxels in reached
RECURSIVE FloodReach(_, _)
FloodReach(grid, reached) ==
    LET next == reached \cup
                {n \in grid : \E v \in reached : FaceNeighbours(v, n)}
    IN  IF next = reached THEN reached ELSE FloodReach(grid, next)

\* _flood_fill_3d clears the voxels it reaches
flood_fill_3d(grid, start_point) ==
    IF start_point \notin grid THEN grid
    ELSE grid \ FloodReach(grid, {start_point})

\* the mask of empty voxels on the six boundary faces
Seeds(empty_space, shape) == {v \in empty_space : OnBoundary(v, shape)}

\* np.random.shuffle(seeds); seeds[:max_seed_points]: any sample of that size
SeedSamples(seeds, max_seeds) ==
    IF Cardinality(seeds) > max_seeds
    THEN {S \in SUBSET seeds : Cardinality(S) = max_seeds}
    ELSE {seeds}

\* one flood fill per seed; the fills commute, so any order gives this grid
RECURSIVE FloodAll(_, _)
FloodAll(grid, seeds) ==
    IF seeds = {} THEN grid
    ELSE LET seed == CHOOSE x \in seeds : TRUE
         IN  FloodAll(flood_fill_3d(grid, seed), seeds \ {seed})

\* the grids _remove_external_space can return
remove_external_space(empty_space, shape, max_seeds) ==
    {FloodAll(empty_space, S) : S \in SeedSamples(Seeds(empty_space, shape), max_seeds)}

\* scan order of scipy.ndimage.label: the last index runs fastest
ScanBefore(a, b) ==
    \/ a[1] < b[1]
    \/ a[1] = b[1] /\ a[2] < b[2]
    \/ a[1] = b[1] /\ a[2] = b[2] /\ a[3] < b[3]

FirstVoxel(S) == CHOOSE v \in S : \A w \in S : w = v \/ ScanBefore(v, w)

\* all the empty voxels taken as one component
WholeGridComponent(grid) == IF grid = {} THEN <<>> ELSE <<grid>>

\* 6-connected components, numbered in the order the scan meets them
RECURSIVE find_connected_components(_)
find_connected_components(grid) ==
    IF grid = {} THEN <<>>
    ELSE LET component == FloodReach(grid, {FirstVoxel(grid)})
         IN  <<component>> \o find_connected_components(grid \ component)

SetMinimum(S) == CHOOSE x \in S : \A y \in S : x <= y
SetMaximum(S) == CHOOSE x \in S : \A y \in S : x >= y

Axis(component, d) == {v[d] : v \in component}

\* sum over a component's voxels of the index along axis d
RECURSIVE AxisSum(_, _)
AxisSum(component, d) ==
    IF component = {} THEN 0
    ELSE LET v == CHOOSE x \in component : TRUE
         IN  v[d] + AxisSum(component \ {v}, d)

\* The space object of detect_spaces.  Real coordinates are
\* origin + (index + 0.5) * base_voxel_size: bbox_min and bbox_max are kept as
\* indices, center as the sum of the indices (the mean is center_sum /
\* voxel_count), dimensions in metres.  voxel_indices is the component; its
\* rows are in scan order.
SpaceObject(component, valid_spaces_count, base_voxel_size) ==
    LET bbox_min == [d \in 1..3 |-> SetMinimum(Axis(component, d))]
        bbox_max == [d \in 1..3 |-> SetMaximum(Axis(component, d))]
    IN  [id |-> SpaceIds[valid_spaces_count + 1],
         volume |-> Cardinality(component)
                        * base_voxel_size * base_voxel_size * base_voxel_size,
         center_sum |-> [d \in 1..3 |-> AxisSum(component, d)],
         bbox_min |-> bbox_min,
         bbox_max |-> bbox_max,
         dimensions |-> [d \in 1..3 |-> (bbox_max[d] - bbox_min[d]) * base_voxel_size],
         voxel_count |-> Cardinality(component),
         voxel_indices |-> component,
         type |-> "unknown"]

\* detect_spaces skips a component below the minimum volume
TooSmall(volume) == volume < min_space_volume

\* the loop of detect_spaces over the components
RECURSIVE ValidSpaces(_, _, _)
ValidSpaces(components, base_voxel_size, sp) ==
    IF Len(components) = 0 THEN sp
    ELSE LET space == SpaceObject(Head(components), Len(sp), base_voxel_size)
         IN  ValidSpaces(Tail(components), base_voxel_size,
                         IF TooSmall(space.volume) THEN sp ELSE Append(sp, space))

\* _check_spaces_adjacent: the least distance between the two voxel sets is at
\* most 1.5, which for index distances means a squared distance of 1 or 2
check_spaces_adjacent(space1, space2) ==
    \E a \in space1.voxel_indices, b \in space2.voxel_indices : Dist2(a, b) <= 2

\* query_ball_point: the other center lies within max(dimensions) plus two
\* voxels of this center.  Both sides are squared and multiplied by the two
\* voxel counts, which keeps the comparison in integers.
Nearby(space, other, voxel_size) ==
    LET n1 == space.voxel_count
        n2 == other.voxel_count
        max_dim == SetMaximum({space.dimensions[d] : d \in 1..3})
        search_radius == max_dim + voxel_size * 2
        diff == [d \in 1..3 |-> space.center_sum[d] * n2 - other.center_sum[d] * n1]
    IN  voxel_size * voxel_size
            * (diff[1] * diff[1] + diff[2] * diff[2] + diff[3] * diff[3])
        <= search_radius * search_radius * n1 * n1 * n2 * n2

HasAdjacency(E, u, v) == \E k \in 1..Len(E) : E[k] = <<u, v>> \/ E[k] = <<v, u>>

\* the double loop of _detect_space_adjacency; the nearby spaces are visited
\* in index order
RECURSIVE AdjacencyEdges(_, _, _, _, _)
AdjacencyEdges(sp, voxel_size, i, j, E) ==
    IF i > Len(sp) THEN E
    ELSE IF j > Len(sp) THEN AdjacencyEdges(sp, voxel_size, i + 1, 1, E)
    ELSE AdjacencyEdges(sp, voxel_size, i, j + 1,
            IF /\ j # i
               /\ Nearby(sp[i], sp[j], voxel_size)
               /\ check_spaces_adjacent(sp[i], sp[j])
               /\ ~HasAdjacency(E, sp[i].id, sp[j].id)
            THEN Append(E, <<sp[i].id, sp[j].id>>)
            ELSE E)

detect_space_adjacency(sp, voxel_size) ==
    IF Len(sp) <= 1 THEN <<>> ELSE AdjacencyEdges(sp, voxel_size, 1, 1, <<>>)

\* SpaceDetector.detect_spaces
detect_spaces ==
    /\ stage = "voxelized"
    /\ IF "empty" \notin DOMAIN voxel_data
       THEN /\ spaces' = <<>>
            /\ space_adjacency' = <<>>
            /\ filled_spaces' = filled_spaces
       ELSE \E filled \in remove_external_space(voxel_data.empty, voxel_data.shape,
                                                max_seed_points) :
               LET spaces_components == find_connected_components(filled)
                   sp == ValidSpaces(spaces_components, voxel_data.base_voxel_size, <<>>)
               IN  /\ filled_spaces' = filled
                   /\ spaces' = sp
                   /\ space_adjacency' =
                          detect_space_adjacency(sp, voxel_data.base_voxel_size)
    /\ stage' = "spaces_detected"
    /\ UNCHANGED <<openings, ventVars, voxel_data, max_seed_points, build_stack, run,
                   first_run, dataVars>>

\* a voxel of the other space within one step along every axis
CornerTouching(voxel, others) ==
    \E o \in others : Dist2(voxel, o) >= 1 /\ Dist2(voxel, o) <= 3

\* the nearest voxel of the other space is at distance exactly 1
FaceTouching(voxel, others) ==
    /\ \E o \in others : Dist2(voxel, o) = 1
    /\ \A o \in others : Dist2(voxel, o) >= 1

\* _find_space_interface: the voxels of either space that share a face with
\* the other space
find_space_interface(voxels1, voxels2) ==
    {v \in voxels1 : FaceTouching(v, voxels2)}
        \cup {v \in voxels2 : FaceTouching(v, voxels1)}

\* the points DBSCAN(eps=1.5, min_samples=2) chains to the points in reached
RECURSIVE ClusterReach(_, _)
ClusterReach(points, reached) ==
    LET next == reached \cup
                {n \in points : \E v \in reached : Dist2(v, n) <= 2}
    IN  IF next = reached THEN reached ELSE ClusterReach(points, next)

\* _cluster_interface_voxels: with min_samples = 2 every point that has a
\* neighbour is a core point, so the clusters are the chains of neighbours;
\* a cluster of fewer than 3 voxels is dropped
RECURSIVE cluster_interface_voxels(_)
cluster_interface_voxels(interface_voxels) ==
    IF interface_voxels = {} THEN <<>>
    ELSE LET cluster == ClusterReach(interface_voxels, {FirstVoxel(interface_voxels)})
             rest == cluster_interface_voxels(interface_voxels \ cluster)
         IN  IF Cardinality(cluster) >= 3 THEN <<cluster>> \o rest ELSE rest

\* ConvexHull(vertices) in compute_opening_features raises QhullError when the
\* points of a cluster lie in one plane (no initial simplex)
QhullRaises(cluster) ==
    LET a == FirstVoxel(cluster)
        diff(p) == [d \in 1..3 |-> p[d] - a[d]]
        det(u, v, w) == u[1] * (v[2] * w[3] - v[3] * w[2])
                          - u[2] * (v[1] * w[3] - v[3] * w[1])
                          + u[3] * (v[1] * w[2] - v[2] * w[1])
    IN  \A b \in cluster : \A c \in cluster : \A d \in cluster :
            det(diff(b), diff(c), diff(d)) = 0

\* compute_opening_features for a cluster that fills its bounding box: the
\* normal is the axis of least variance, the shortest side of the box, and the
\* projected hull is the rectangle of the other two sides.  width and height
\* in tenths of a metre (width the longer), area in tenths of a square metre,
\* aspect_ratio = width / height (0 for height 0) in hundredths.
compute_opening_features(cluster, voxel_size) ==
    LET side == [d \in 1..3 |-> SetMaximum(Axis(cluster, d)) - SetMinimum(Axis(cluster, d))]
        longest == SetMaximum(Range(side))
        shortest == SetMinimum(Range(side))
        middle == side[1] + side[2] + side[3] - longest - shortest
    IN  [area |-> 10 * longest * middle * voxel_size * voxel_size,
         width |-> 10 * longest * voxel_size,
         height |-> 10 * middle * voxel_size,
         aspect_ratio |-> IF middle > 0 THEN (100 * longest) \div middle ELSE 0]

\* _detect_openings_between_spaces: one opening per cluster.  Of the geometric
\* features the model keeps area, width, height and aspect_ratio, and the
\* cluster itself.
detect_openings_between_spaces(space1, space2, voxel_size) ==
    LET clusters == cluster_interface_voxels(
                        find_space_interface(space1.voxel_indices, space2.voxel_indices))
    IN  [k \in 1..Len(clusters) |->
            LET features == compute_opening_features(clusters[k], voxel_size)
            IN  [id |-> "", type |-> "unknown", connects |-> <<>>,
                 voxel_indices |-> clusters[k],
                 area |-> features.area, width |-> features.width,
                 height |-> features.height,
                 aspect_ratio |-> features.aspect_ratio, state |-> "open"]]

SpaceById(sp, id) == sp[CHOOSE i \in 1..Len(sp) : sp[i].id = id]

\* the openings of the first edge only, each naming one side
OpeningsNamingOneSide(sp, edges, voxel_size, found) ==
    IF Len(edges) = 0 THEN found
    ELSE LET between == detect_openings_between_spaces(SpaceById(sp, Head(edges)[1]),
                                                       SpaceById(sp, Head(edges)[2]),
                                                       voxel_size)
         IN  [k \in 1..Len(between) |->
                 [between[k] EXCEPT !.id = OpeningId(k),
                                    !.connects = <<Head(edges)[1]>>]]

\* the loop of detect_openings over the adjacency edges
RECURSIVE OpeningsOfEdges(_, _, _, _)
OpeningsOfEdges(sp, edges, voxel_size, found) ==
    IF Len(edges) = 0 THEN found
    ELSE LET space1_id == Head(edges)[1]
             space2_id == Head(edges)[2]
             between == detect_openings_between_spaces(SpaceById(sp, space1_id),
                                                       SpaceById(sp, space2_id),
                                                       voxel_size)
             named == [k \in 1..Len(between) |->
                          [between[k] EXCEPT !.id = OpeningId(Len(found) + k),
                                             !.connects = <<space1_id, space2_id>>]]
         IN  OpeningsOfEdges(sp, Tail(edges), voxel_size, found \o named)

\* some cluster of some adjacency edge makes compute_opening_features raise
DetectOpeningsRaises(sp, edges) ==
    \E k \in 1..Len(edges) :
        \E cluster \in Range(cluster_interface_voxels(
                find_space_interface(SpaceById(sp, edges[k][1]).voxel_indices,
                                     SpaceById(sp, edges[k][2]).voxel_indices))) :
            QhullRaises(cluster)

\* config.py "openings": area limits in tenths of a square metre, the aspect
\* ratio in hundredths
standard_door_area_limit == 20
wide_door_area_limit == 50
passage_aspect_ratio == 300

\* the rules tried with the wide door first
ClassifyWideDoorFirst(opening) ==
    [opening EXCEPT !.type =
        IF opening.area <= wide_door_area_limit /\ opening.width < 30
        THEN "wide_door"
        ELSE IF opening.area <= standard_door_area_limit /\ opening.aspect_ratio >= 150
        THEN "standard_door"
        ELSE IF \/ opening.area > wide_door_area_limit
                \/ opening.aspect_ratio >= passage_aspect_ratio
        THEN "passage"
        ELSE "standard_door"]

\* _classify_openings, for one opening
classify_opening(opening) ==
    [opening EXCEPT !.type =
        IF opening.area <= standard_door_area_limit /\ opening.aspect_ratio >= 150
        THEN "standard_door"
        ELSE IF opening.area <= wide_door_area_limit /\ opening.width < 30
        THEN "wide_door"
        ELSE IF \/ opening.area > wide_door_area_limit
                \/ opening.aspect_ratio >= passage_aspect_ratio
        THEN "passage"
        ELSE "standard_door"]

\* OpeningDetector.detect_openings; when it raises, the caller's list stays
detect_openings ==
    /\ stage = "spaces_detected"
    /\ IF "empty" \notin DOMAIN voxel_data \/ Len(spaces) = 0
       THEN openings' = <<>> /\ stage' = "openings_detected"
       ELSE IF DetectOpeningsRaises(spaces, space_adjacency)
       THEN openings' = openings /\ stage' = "openings_error"
       ELSE LET found == OpeningsOfEdges(spaces, space_adjacency,
                                         voxel_data.base_voxel_size, <<>>)
            IN  /\ openings' = [k \in 1..Len(found) |-> classify_opening(found[k])]
                /\ stage' = "openings_detected"
    /\ UNCHANGED <<spaces, ventVars, gridVars, dataVars>>

\* what a run reports: space IDs, voxel counts, adjacency edges, openings
RunSummary ==
    [ids |-> [i \in 1..Len(spaces) |-> spaces[i].id],
     voxel_counts |-> [i \in 1..Len(spaces) |-> spaces[i].voxel_count],
     edges |-> space_adjacency,
     openings |-> [i \in 1..Len(openings) |-> openings[i].connects]]

\* the detector stages are run once more on the same grid and configuration
rerun ==
    /\ stage = "openings_detected"
    /\ run = 1
    /\ run' = 2
    /\ first_run' = RunSummary
    /\ stage' = "voxelized"
    /\ spaces' = <<>>
    /\ openings' = <<>>
    /\ filled_spaces' = {}
    /\ space_adjacency' = <<>>
    /\ UNCHANGED <<ventVars, voxel_data, max_seed_points, build_stack, dataVars>>

(* The grids of the model: a deck plan in the plane z = 1 between a solid    *)
(* floor and ceiling: a 3 x 3 interior whose voxels are each empty or solid, *)
(* three window positions in the outer wall and a hatch in the ceiling.      *)
FreeVoxels ==
    {<<x, y, 1>> : x \in 1..3, y \in 1..3}
        \cup {<<0, 2, 1>>, <<4, 2, 1>>, <<2, 0, 1>>}
        \cup {<<2, 2, 2>>}
VoxelSizes == {1, 2}
SeedLimits == {1, 5000}

InitGrid ==
    /\ stage = "voxelized"
    /\ voxel_data \in [empty : SUBSET FreeVoxels, shape : {<<GridX, GridY, GridZ>>},
                     base_voxel_size : VoxelSizes]
    /\ max_seed_points \in SeedLimits
    /\ build_stack = <<>>
    /\ filled_spaces = {}
    /\ space_adjacency = <<>>
    /\ run = 1
    /\ first_run = <<>>
    /\ DataIdle
    /\ spaces = <<>>
    /\ openings = <<>>
    /\ graph_nodes = <<>>
    /\ graph_edges = <<>>
    /\ isolated_spaces = <<>>
    /\ ach_rates = <<>>
    /\ updated_rates = <<>>
    /\ ventilation_paths = <<>>

NextGrid == detect_spaces \/ detect_openings \/ rerun

SpecGrid == InitGrid /\ [][NextGrid]_vars

Detected == stage \in {"spaces_detected", "openings_detected"}

\* the empty voxels 6-connected through empty voxels to an empty voxel on a
\* boundary face
ExteriorVoxels(empty_space, shape) ==
    FloodReach(empty_space, Seeds(empty_space, shape))

\* C3: the grid _remove_external_space returns is true at a voxel exactly when
\* the voxel is empty and is not 6-connected through empty voxels to an empty
\* voxel on a boundary face, for every grid and every max_seed_points.
C3_ExteriorRemoved ==
    Detected =>
        filled_spaces = voxel_data.empty
                            \ ExteriorVoxels(voxel_data.empty, voxel_data.shape)

\* two rooms of 3 voxels (24 m3 each) behind closed outer walls, joined by a
\* doorway of one voxel in the wall between them
TwoRoomsJoinedByDoorway ==
    LET RoomA == {<<1, y, 1>> : y \in 1..3}
        RoomB == {<<3, y, 1>> : y \in 1..3}
        PartitionWall == {<<2, y, 1>> : y \in 1..3}
    IN  /\ voxel_data.base_voxel_size = 2
        /\ \E door \in PartitionWall : voxel_data.empty = RoomA \cup RoomB \cup {door}

\* C4: for two enclosed rooms joined only by an open doorway, neither reaching
\* the grid boundary, detect_spaces and detect_openings report 2 spaces and 1
\* opening whose endpoints are those two spaces.
C4_TwoRoomsOneOpening ==
    (stage = "openings_detected" /\ TwoRoomsJoinedByDoorway) =>
        /\ Len(spaces) = 2
        /\ Len(openings) = 1
        /\ Range(openings[1].connects) = {spaces[1].id, spaces[2].id}

\* C5: a second run of the stages on the same grid and configuration produces
\* the same space IDs, voxel counts and graph edges as the first.
C5_RerunIdentical ==
    (run = 2 /\ stage = "openings_detected") => RunSummary = first_run

-----------------------------------------------------------------------------
(* The output record (space_data_generator.py) and the end of run_analysis  *)
(* (main.py).  The record is modelled by its "spaces" and "connections";    *)
(* "metadata" and "ventilationPaths" are read by no check of the record.    *)

Get(record, key, default) == IF key \in DOMAIN record THEN record[key] ELSE default

\* the standardized space object of _process_spaces
ProcessedSpace(space, rates, paths_of) ==
    LET paths == Get(paths_of, space.id, <<>>)
    IN  [id |-> space.id,
         type |-> Get(space, "type", "unknown"),
         volume |-> Get(space, "volume", 0),
         boundingBox |-> [min |-> Get(space, "bbox_min", <<0, 0, 0>>),
                          max |-> Get(space, "bbox_max", <<0, 0, 0>>)],
         ventilationRate |-> GetRate(rates, space.id),
         connections |-> <<>>,
         ventilationInfo |->
            IF Len(paths) > 0
            THEN [primaryPath |-> [route |-> paths[1].route, via |-> paths[1].via,
                                   length |-> paths[1].length],
                  pathCount |-> Len(paths)]
            ELSE None]

process_spaces(sp, rates, paths_of) ==
    [i \in 1..Len(sp) |-> ProcessedSpace(sp[i], rates, paths_of)]

\* the standardized opening object of _process_openings
ProcessedOpening(opening) ==
    [id |-> opening.id,
     type |-> Get(opening, "type", "unknown"),
     connects |-> Get(opening, "connects", <<>>),
     area |-> IF Get(opening, "area", NoArea) = NoArea THEN 0 ELSE opening.area,
     state |-> Get(opening, "state", "open")]

\* _process_openings looks the connected spaces up in self._process_spaces,
\* which is the method, not the list of processed spaces: the first opening
\* that names an endpoint raises TypeError
ProcessOpeningsRaises(ops) ==
    \E k \in 1..Len(ops) : Len(Get(ops[k], "connects", <<>>)) > 0

process_openings(ops) == [k \in 1..Len(ops) |-> ProcessedOpening(ops[k])]

\* the record generate_space_data assembles from the stage results
AssembledRecord(sp, ops, rates, paths_of) ==
    [spaces |-> process_spaces(sp, rates, paths_of),
     connections |-> process_openings(ops)]

\* Step 7 of run_analysis and its return: generate_space_data either raises,
\* which leaves final_data as it was, or its record is stored in final_data
\* and the run returns its statistics.
generate_space_data ==
    /\ stage = "ach_done"
    /\ IF ProcessOpeningsRaises(openings)
       THEN /\ stage' = "generate_error"
            /\ UNCHANGED <<final_data, result>>
       ELSE /\ stage' = "generated"
            /\ final_data' = AssembledRecord(spaces, openings, ach_rates, ventilation_paths)
            /\ result' = [status |-> "success", spaces_count |-> Len(spaces),
                          openings_count |-> Len(openings)]
    /\ UNCHANGED <<spaces, openings, ventVars, gridVars, data, validation, parsed_model,
                   config, component_params>>

\* the except clause of run_analysis: the exception of a step becomes an
\* error outcome; error is the exception's kind
run_analysis_except ==
    /\ stage \in {"topology_error", "generate_error"}
    /\ result = None
    /\ result' = [status |-> "error",
                  error |-> IF stage = "topology_error"
                            THEN "ZeroDivisionError" ELSE "TypeError"]
    /\ UNCHANGED <<stage, spaces, openings, ventVars, gridVars, final_data, data, validation,
                   parsed_model, config, component_params>>

NextData ==
    build_topology \/ calculate_ach_rates \/ generate_space_data \/ run_analysis_except

SpecData == InitVent /\ [][NextData]_vars

\* the IDs of the openings whose connects list includes the space
OpeningsNaming(ops, space_id) ==
    SelectSeq([k \in 1..Len(ops) |-> ops[k].id],
              LAMBDA id : \E k \in 1..Len(ops) :
                              ops[k].id = id /\ space_id \in Range(ops[k].connects))

\* C9: generate_space_data returns (does not raise) for every opening list,
\* and each space's connections list in its record equals the IDs of the
\* openings whose connects list includes that space.
C9_ConnectionsFilled ==
    stage \in {"generated", "generate_error"} =>
        /\ stage = "generated"
        /\ \A i \in 1..Len(final_data.spaces) :
              final_data.spaces[i].connections
                  = OpeningsNaming(openings, final_data.spaces[i].id)

(* validate_space_data.  Rates are in thousandths of an air change per hour. *)

\* the loop over data["spaces"]
RECURSIVE CheckSpaces(_, _, _, _)
CheckSpaces(sp, space_ids, errors, warnings) ==
    IF Len(sp) = 0
    THEN [space_ids |-> space_ids, errors |-> errors, warnings |-> warnings]
    ELSE LET space == Head(sp)
         IN  IF "id" \notin DOMAIN space
             THEN CheckSpaces(Tail(sp), space_ids,
                              Append(errors, "space without id"), warnings)
             ELSE LET errors1 == IF space.id \in space_ids
                                 THEN Append(errors, "duplicate space id")
                                 ELSE errors
                      volume == Get(space, "volume", 0)
                      warnings1 == IF volume <= 0
                                   THEN Append(warnings, "volume")
                                   ELSE warnings
                      ach == Get(space, "ventilationRate", 0)
                      warnings2 == IF ach < 0
                                   THEN Append(warnings1, "negative rate")
                                   ELSE IF ach > 20000
                                   THEN Append(warnings1, "high rate")
                                   ELSE warnings1
                  IN  CheckSpaces(Tail(sp), space_ids \cup {space.id},
                                  errors1, warnings2)

\* one error per endpoint that is neither a space ID nor an exterior ID
UnknownEndpoints(connects, space_ids) ==
    SelectSeq(connects,
              LAMBDA space_id : space_id \notin space_ids /\ ~StartsWithExterior(space_id))

\* the loop over data["connections"]
RECURSIVE CheckConnections(_, _, _, _)
CheckConnections(connections, space_ids, conn_ids, errors) ==
    IF Len(connections) = 0 THEN errors
    ELSE LET conn == Head(connections)
         IN  IF "id" \notin DOMAIN conn
             THEN CheckConnections(Tail(connections), space_ids, conn_ids,
                                   Append(errors, "connection without id"))
             ELSE LET errors1 == IF conn.id \in conn_ids
                                 THEN Append(errors, "duplicate connection id")
                                 ELSE errors
                      unknown == UnknownEndpoints(Get(conn, "connects", <<>>), space_ids)
                  IN  CheckConnections(Tail(connections), space_ids,
                                       conn_ids \cup {conn.id}, errors1 \o unknown)

IsValidNoWarnings(errors, warnings) == Len(errors) = 0 /\ Len(warnings) = 0

IsValid(errors, warnings) == Len(errors) = 0

ValidateSpaceData(record) ==
    LET checked == CheckSpaces(Get(record, "spaces", <<>>), {}, <<>>, <<>>)
        errors == CheckConnections(Get(record, "connections", <<>>),
                                   checked.space_ids, {}, checked.errors)
    IN  [errors |-> errors,
         warnings |-> checked.warnings,
         is_valid |-> IsValid(errors, checked.warnings)]

validate_space_data ==
    /\ stage = "record"
    /\ validation' = ValidateSpaceData(data)
    /\ stage' = "validated"
    /\ UNCHANGED <<spaces, openings, ventVars, gridVars, final_data, result, data, parsed_model,
                   config, component_params>>

MaxRecordSpaces == 2
MaxRecordConnections == 2

RecordSpaces ==
    {[id |-> "space_000", volume |-> 5, ventilationRate |-> 5000],
     [id |-> "space_000", volume |-> 0, ventilationRate |-> 5000],
     [id |-> "space_000", volume |-> 5, ventilationRate |-> 21000],
     [id |-> "space_000", volume |-> 5, ventilationRate |-> -1000],
     [id |-> "space_001", volume |-> 5, ventilationRate |-> 5000],
     [volume |-> 5, ventilationRate |-> 5000]}

RecordConnections ==
    {[id |-> "opening_001", connects |-> <<"space_000", "space_001">>],
     [id |-> "opening_001", connects |-> <<"space_000", "space_exterior">>],
     [id |-> "opening_001", connects |-> <<"space_exterior_2", "space_001">>],
     [id |-> "opening_001", connects |-> <<"space_001", "space_404">>],
     [id |-> "opening_002", connects |-> <<"space_000", "space_001">>],
     [connects |-> <<"space_000", "space_001">>]}

InitValidate ==
    /\ stage = "record"
    /\ data \in [spaces : SeqsUpTo(RecordSpaces, MaxRecordSpaces),
                 connections : SeqsUpTo(RecordConnections, MaxRecordConnections)]
    /\ final_data = None
    /\ result = None
    /\ validation = None
    /\ parsed_model = None
    /\ config = DEFAULT_CONFIG
    /\ component_params = ConstructComponents(DEFAULT_CONFIG)
    /\ spaces = <<>>
    /\ openings = <<>>
    /\ graph_nodes = <<>>
    /\ graph_edges = <<>>
    /\ isolated_spaces = <<>>
    /\ ach_rates = <<>>
    /\ updated_rates = <<>>
    /\ ventilation_paths = <<>>
    /\ GridIdle

SpecValidate == InitValidate /\ [][validate_space_data]_vars

HasIds(records) == \A i \in 1..Len(records) : "id" \in DOMAIN records[i]

UniqueIds(records) ==
    \A i, j \in 1..Len(records) : records[i].id = records[j].id => i = j

Resolvable(record) ==
    \A k \in 1..Len(record.connections) :
        \A e \in Range(record.connections[k].connects) :
            \/ \E i \in 1..Len(record.spaces) : record.spaces[i].id = e
            \/ StartsWithExterior(e)

ReasonableSpaces(record) ==
    \A i \in 1..Len(record.spaces) :
        /\ record.spaces[i].volume > 0
        /\ record.spaces[i].ventilationRate >= 0
        /\ record.spaces[i].ventilationRate <= 20000

\* C8 as stated: is_valid is true exactly when all space IDs are unique, all
\* opening IDs are unique, every opening endpoint is a space ID or an exterior
\* ID, every volume is greater than 0 and every ventilationRate is in [0, 20].
C8_ValidIffAllChecks ==
    (stage = "validated" /\ HasIds(data.spaces) /\ HasIds(data.connections)) =>
        (validation.is_valid <=>
            /\ UniqueIds(data.spaces)
            /\ UniqueIds(data.connections)
            /\ Resolvable(data)
            /\ ReasonableSpaces(data))

\* C8, amended: is_valid is true exactly when every space and every
\* connection has an ID, all space IDs are unique, all connection IDs are
\* unique, and every endpoint is a space ID or an exterior ID; a volume that
\* is not greater than 0 or a ventilationRate outside [0, 20] only adds a
\* warning.
C8_ValidIffNoStructuralError ==
    stage = "validated" =>
        /\ validation.is_valid <=>
            /\ HasIds(data.spaces)
            /\ HasIds(data.connections)
            /\ UniqueIds(data.spaces)
            /\ UniqueIds(data.connections)
            /\ Resolvable(data)
        /\ (HasIds(data.spaces) /\ ~ReasonableSpaces(data))
               => Len(validation.warnings) > 0

\* a record whose only findings are warnings has been validated
C8_Witness ==
    /\ stage = "validated"
    /\ validation.is_valid
    /\ Len(validation.warnings) > 0
    /\ Len(data.connections) > 0

-----------------------------------------------------------------------------
(* Opening states (ach_calculator.py, update_ach_for_opening_state)          *)

\* opening_states.get(opening_id) == "closed"
Closed(opening_states, opening_id) ==
    opening_id \in DOMAIN opening_states /\ opening_states[opening_id] = "closed"

AllPathsAffected(paths, opening_states) ==
    \A p \in 1..Len(paths) :
        \E k \in 1..Len(paths[p].via) : Closed(opening_states, paths[p].via[k])

\* path_affected: some stored path runs through a closed opening
PathAffected(paths, opening_states) ==
    \E p \in 1..Len(paths) :
        \E k \in 1..Len(paths[p].via) : Closed(opening_states, paths[p].via[k])

\* updated_rates[space_id] *= 0.7
Reduced(rate) == (rate * 7) \div 10

\* the loop over self.ventilation_paths.items()
UpdatedRates(rates, paths_of, opening_states) ==
    [id \in DOMAIN rates |->
        IF id \in DOMAIN paths_of /\ PathAffected(paths_of[id], opening_states)
        THEN Reduced(rates[id])
        ELSE rates[id]]

AliasedRates(rates, updated) == updated

\* updated_rates = self.ach_rates.copy(): the stored map is another object
\* than the one the loop writes to
StoredRates(rates, updated) == rates

\* the opening-state maps of the model: every opening named, one named, none
OpeningStateMaps ==
    LET ids == {OpeningId(k) : k \in 1..MaxOpenings} \cup {"repair_opening"}
    IN  UNION {[D -> {"open", "closed"}] : D \in {ids, {OpeningId(1)}, {}}}

update_ach_for_opening_state ==
    /\ stage = "ach_done"
    /\ \E opening_states \in OpeningStateMaps :
        LET updated == UpdatedRates(ach_rates, ventilation_paths, opening_states)
        IN  /\ updated_rates' = updated
            /\ ach_rates' = StoredRates(ach_rates, updated)
    /\ UNCHANGED <<stage, spaces, openings, graph_nodes, graph_edges, isolated_spaces,
                   ventilation_paths, gridVars, dataVars>>

NextUpdate == build_topology \/ calculate_ach_rates \/ update_ach_for_opening_state

\* three spaces of 5 m3 and every opening list of the model
InitUpdate ==
    /\ InitVent
    /\ \A i \in 1..Len(spaces) : spaces[i].volume = Volumes[1]

SpecUpdate == InitUpdate /\ [][NextUpdate]_vars

\* C11: update_ach_for_opening_state leaves the stored ach_rates map and the
\* stored ventilation_paths unchanged, for every opening-state map and after
\* any sequence of such calls.
C11_StoredRatesKept ==
    [][update_ach_for_opening_state =>
          ach_rates' = ach_rates /\ ventilation_paths' = ventilation_paths]_vars

\* a call has returned a map that differs from the stored one
C11_Witness ==
    /\ stage = "ach_done"
    /\ DOMAIN updated_rates # {}
    /\ updated_rates # ach_rates

-----------------------------------------------------------------------------
(* Adjacency of spaces with far-reaching shapes.  The grids hold a block of  *)
(* side k in one corner of the interior, a staircase of voxels from the      *)
(* block to the tip <<reach, reach, reach>>, and one more voxel near the tip.*)

MaxReach == 7

BlockAndStaircase(k, reach) ==
    {<<x, y, z>> : x \in 1..k, y \in 1..k, z \in 1..k}
        \cup UNION {{<<t, t - 1, t - 1>>, <<t, t, t - 1>>, <<t, t, t>>} :
                        t \in (k + 1)..reach}

TipOffsets == {<<1, 1, 0>>, <<1, 0, 1>>, <<0, 1, 1>>, <<1, 1, 1>>, <<2, 0, 0>>}

ReachGrids ==
    {BlockAndStaircase(k, reach)
        \cup {<<reach + o[1], reach + o[2], reach + o[3]>>} :
            k \in 1..3, reach \in 4..MaxReach, o \in TipOffsets}

InitReach ==
    /\ stage = "voxelized"
    /\ voxel_data \in [empty : ReachGrids,
                       shape : {<<MaxReach + 3, MaxReach + 3, MaxReach + 3>>},
                       base_voxel_size : {2}]
    /\ max_seed_points = 5000
    /\ build_stack = <<>>
    /\ filled_spaces = {}
    /\ space_adjacency = <<>>
    /\ run = 1
    /\ first_run = <<>>
    /\ DataIdle
    /\ spaces = <<>>
    /\ openings = <<>>
    /\ graph_nodes = <<>>
    /\ graph_edges = <<>>
    /\ isolated_spaces = <<>>
    /\ ach_rates = <<>>
    /\ updated_rates = <<>>
    /\ ventilation_paths = <<>>

SpecReach == InitReach /\ [][NextGrid]_vars

\* C13: after _detect_space_adjacency an edge joins two distinct spaces
\* exactly when the least Euclidean distance between a voxel index of one and
\* a voxel index of the other is at most sqrt(2); the centroid-radius
\* pre-filter misses no such pair.
C13_AdjacencyIffClose ==
    Detected =>
        \A i, j \in 1..Len(spaces) :
            i # j =>
                (HasAdjacency(space_adjacency, spaces[i].id, spaces[j].id)
                    <=> \E a \in spaces[i].voxel_indices, b \in spaces[j].voxel_indices :
                            Dist2(a, b) <= 2)

\* ---------------------------------------------------------------------------
\* Fragment merge (space_detector.py, merge_fragmented_spaces)
\* ---------------------------------------------------------------------------

\* config.py "space_merge_distance" (0.5 m), in tenths of a metre
space_merge_distance == 5

\* voxel_data["origin"]: the lower corner of the mesh's bounding box, metres
GridOrigin == <<0, 0, 0>>

\* space["center"] times 2 * voxel_count.  detect_spaces stores
\* origin + (mean index + 0.5) * base_voxel_size, _merge_spaces the mean index
\* itself.
CenterTimes2n(space, base_voxel_size) ==
    [d \in 1..3 |->
        IF "merged_from" \in DOMAIN space
        THEN 2 * space.center_sum[d]
        ELSE 2 * space.voxel_count * GridOrigin[d]
                 + base_voxel_size * (2 * space.center_sum[d] + space.voxel_count)]

\* the test merge_fragmented_spaces applies to one adjacency edge:
\*   |center2 - center1| - max(dimensions1)/2 - max(dimensions2)/2 <= 0.5
\* both sides are non-negative once the radii are moved to the right, so the
\* comparison is made on the squares
ShouldMerge(space1, space2, base_voxel_size) ==
    LET n1 == space1.voxel_count
        n2 == space2.voxel_count
        c1 == CenterTimes2n(space1, base_voxel_size)
        c2 == CenterTimes2n(space2, base_voxel_size)
        diff == [d \in 1..3 |-> c2[d] * n1 - c1[d] * n2]
        space1_max_radius2 == SetMaximum(Range(space1.dimensions))
        space2_max_radius2 == SetMaximum(Range(space2.dimensions))
        reach == 2 * space_merge_distance
                    + 10 * (space1_max_radius2 + space2_max_radius2)
    IN  100 * (diff[1] * diff[1] + diff[2] * diff[2] + diff[3] * diff[3])
          <= reach * reach * n1 * n1 * n2 * n2

\* merge_pairs: the adjacency edges that pass the test, in edge order
MergePairs(sp, adjacency, base_voxel_size) ==
    SelectSeq(adjacency,
              LAMBDA edge : ShouldMerge(SpaceById(sp, edge[1]), SpaceById(sp, edge[2]),
                                        base_voxel_size))

\* every pair merged on its own, without the components of the merge graph
MergeEachPair(merge_pairs) ==
    [k \in 1..Len(merge_pairs) |-> Range(merge_pairs[k])]

\* nx.connected_components(merge_graph): add_edges_from inserts the nodes in
\* the order the pairs name them; components of one node are skipped
MergeComponents(merge_pairs) ==
    LET nodes == AddNodes(<<>>, [k \in 1..2 * Len(merge_pairs) |->
                                    merge_pairs[(k + 1) \div 2][2 - (k % 2)]])
        merge_graph == [k \in 1..Len(merge_pairs) |->
                            [u |-> merge_pairs[k][1], v |-> merge_pairs[k][2]]]
    IN  SelectSeq(ConnectedComponents(nodes, merge_graph, {}),
                  LAMBDA component : Cardinality(component) > 1)

\* _merge_spaces: the bounding box, the dimensions and the centre are taken
\* from the voxel indices (index units); the centre is the mean over the
\* stacked index lists of the sources, kept as its sum (the lists of distinct
\* spaces are disjoint, so voxel_count is the number of stacked points)
merge_spaces(sp, new_id) ==
    LET voxel_indices == UNION {sp[k].voxel_indices : k \in 1..Len(sp)}
        bbox_min == [d \in 1..3 |-> SetMinimum(Axis(voxel_indices, d))]
        bbox_max == [d \in 1..3 |-> SetMaximum(Axis(voxel_indices, d))]
    IN  [id |-> new_id,
         volume |-> SumSeq([k \in 1..Len(sp) |-> sp[k].volume]),
         center_sum |-> [d \in 1..3 |->
                            SumSeq([k \in 1..Len(sp) |-> sp[k].center_sum[d]])],
         bbox_min |-> bbox_min,
         bbox_max |-> bbox_max,
         dimensions |-> [d \in 1..3 |-> bbox_max[d] - bbox_min[d]],
         voxel_count |-> Cardinality(voxel_indices),
         voxel_indices |-> voxel_indices,
         type |-> "merged",
         merged_from |-> [k \in 1..Len(sp) |-> sp[k].id]]

\* the later calls of merge_fragmented_spaces that are followed
MaxMergeCalls == 2

\* "space_merged_" + uuid4().hex[:8]: values uuid4 can return; the ids drawn
\* in one call are taken to differ
MergedIds == {"space_merged_3f9a1c07", "space_merged_b2e4d810", "space_merged_7c05aa9e"}

\* unmerged_spaces + merged_spaces
MergedSpaceList(sp, components, new_ids) ==
    LET merged_space_ids == UNION Range(components)
    IN  SelectSeq(sp, LAMBDA s : s.id \notin merged_space_ids)
        \o [k \in 1..Len(components) |->
                merge_spaces(SelectSeq(sp, LAMBDA s : s.id \in components[k]),
                             new_ids[k])]

\* adjacency looked up through the first source of a merged space only
AdjacentByFirstSource(space1, space2, adjacency) ==
    HasAdjacency(adjacency,
                 IF "merged_from" \in DOMAIN space1 THEN space1.merged_from[1]
                 ELSE space1.id,
                 IF "merged_from" \in DOMAIN space2 THEN space2.merged_from[1]
                 ELSE space2.id)

\* the four cases of _update_adjacency_after_merge for one pair of spaces
AdjacentAfterMerge(space1, space2, adjacency) ==
    IF "merged_from" \in DOMAIN space1 /\ "merged_from" \in DOMAIN space2
    THEN \E a \in 1..Len(space1.merged_from), b \in 1..Len(space2.merged_from) :
            HasAdjacency(adjacency, space1.merged_from[a], space2.merged_from[b])
    ELSE IF "merged_from" \in DOMAIN space1
    THEN \E a \in 1..Len(space1.merged_from) :
            HasAdjacency(adjacency, space1.merged_from[a], space2.id)
    ELSE IF "merged_from" \in DOMAIN space2
    THEN \E b \in 1..Len(space2.merged_from) :
            HasAdjacency(adjacency, space1.id, space2.merged_from[b])
    ELSE HasAdjacency(adjacency, space1.id, space2.id)

\* _update_adjacency_after_merge: the loop over i < j, edges in loop order
RECURSIVE update_adjacency_after_merge(_, _, _, _, _)
update_adjacency_after_merge(sp, adjacency, i, j, E) ==
    IF i > Len(sp) THEN E
    ELSE IF j > Len(sp) THEN update_adjacency_after_merge(sp, adjacency, i + 1, i + 2, E)
    ELSE update_adjacency_after_merge(sp, adjacency, i, j + 1,
            IF AdjacentAfterMerge(sp[i], sp[j], adjacency)
            THEN Append(E, <<sp[i].id, sp[j].id>>)
            ELSE E)

\* the body of merge_fragmented_spaces; a new id differs from the ids in use
MergeCall ==
    LET components == IF Len(spaces) <= 1 THEN <<>>
                      ELSE MergeComponents(MergePairs(spaces, space_adjacency,
                                                      voxel_data.base_voxel_size))
        free_ids == MergedIds \ {spaces[k].id : k \in 1..Len(spaces)}
    IN  IF Len(components) = 0
        THEN UNCHANGED <<spaces, space_adjacency>>
        ELSE \E new_ids \in [1..Len(components) -> free_ids] :
                /\ \A a, b \in 1..Len(components) : new_ids[a] = new_ids[b] => a = b
                /\ spaces' = MergedSpaceList(spaces, components, new_ids)
                /\ space_adjacency' =
                       update_adjacency_after_merge(spaces', space_adjacency, 1, 2, <<>>)

\* merge_fragmented_spaces, one call on the freshly detected spaces
merge_fragmented_spaces ==
    /\ stage = "spaces_detected"
    /\ MergeCall
    /\ stage' = "spaces_merged"
    /\ UNCHANGED <<openings, ventVars, voxel_data, max_seed_points, build_stack, filled_spaces,
                   run, first_run, dataVars>>

\* merge_fragmented_spaces called again on the list an earlier call left;
\* run counts these calls
merge_fragmented_spaces_again ==
    /\ stage = "spaces_merged"
    /\ run <= MaxMergeCalls
    /\ MergeCall
    /\ run' = run + 1
    /\ UNCHANGED <<stage, openings, ventVars, voxel_data, max_seed_points, build_stack,
                   filled_spaces, first_run, dataVars>>

\* grids of thin bars that touch only at their corners: a bar of BarLength
\* voxels, the bars at right angles to it and the one that continues it one
\* row up, and a single voxel at the far end
BarLength == 5

BarVoxels ==
    <<{<<1, y, 1>> : y \in 2..BarLength + 1},
      {<<x, 1, 1>> : x \in 2..BarLength + 1},
      {<<x, 2, 1>> : x \in BarLength + 2..2 * BarLength + 1},
      {<<BarLength + 1, y, 1>> : y \in 3..BarLength + 2},
      {<<x, BarLength + 3, 1>> : x \in BarLength + 2..2 * BarLength + 1},
      {<<2 * BarLength + 2, 3, 1>>}>>

InitMerge ==
    /\ stage = "voxelized"
    /\ \E chosen \in SUBSET (1..Len(BarVoxels)) :
          voxel_data \in [empty : {UNION {BarVoxels[k] : k \in chosen}},
                          shape : {<<2 * BarLength + 4, BarLength + 5, 3>>},
                          base_voxel_size : VoxelSizes]
    /\ max_seed_points = 5000
    /\ build_stack = <<>>
    /\ filled_spaces = {}
    /\ space_adjacency = <<>>
    /\ run = 1
    /\ first_run = <<>>
    /\ DataIdle
    /\ spaces = <<>>
    /\ openings = <<>>
    /\ graph_nodes = <<>>
    /\ graph_edges = <<>>
    /\ isolated_spaces = <<>>
    /\ ach_rates = <<>>
    /\ updated_rates = <<>>
    /\ ventilation_paths = <<>>

NextMerge == detect_spaces \/ merge_fragmented_spaces

SpecMerge == InitMerge /\ [][NextMerge]_vars

\* the sources of a space after the merge: merged_from, or the space itself
Sources(space) ==
    IF "merged_from" \in DOMAIN space THEN Range(space.merged_from) ELSE {space.id}

\* C14: one merge call replaces every component (of two or more spaces) of the
\* merge relation by exactly one space of type "merged" whose merged_from is
\* the component, whose voxels are the union and whose volume is the sum of the
\* sources'; the other spaces are kept as they were, so every space from
\* before the call is represented exactly once afterwards
C14_MergeReplacesComponents ==
    [][merge_fragmented_spaces =>
        LET pairs == MergePairs(spaces, space_adjacency, voxel_data.base_voxel_size)
            ids == {spaces[k].id : k \in 1..Len(spaces)}
            related(a, b) == \E k \in 1..Len(pairs) : Range(pairs[k]) = {a, b}
            linked(S) == \A a \in S : \A b \in S :
                            b \in ReachFrom([k \in 1..Len(pairs) |->
                                   [u |-> pairs[k][1], v |-> pairs[k][2]]], {a})
            component(S) == /\ S # {}
                            /\ linked(S)
                            /\ \A a \in S : \A b \in ids \ S : ~related(a, b)
            merged == {k \in 1..Len(spaces') : spaces'[k].type = "merged"}
        IN  /\ \A S \in SUBSET ids :
                (component(S) /\ Cardinality(S) >= 2) =>
                    \E k \in merged :
                        /\ Range(spaces'[k].merged_from) = S
                        /\ Len(spaces'[k].merged_from) = Cardinality(S)
                        /\ spaces'[k].voxel_indices =
                              UNION {SpaceById(spaces, a).voxel_indices : a \in S}
                        /\ spaces'[k].volume =
                              SumSeq([a \in 1..Len(spaces'[k].merged_from) |->
                                  SpaceById(spaces, spaces'[k].merged_from[a]).volume])
                        /\ \A other \in merged :
                              Range(spaces'[other].merged_from) = S => other = k
            /\ \A k \in merged :
                  LET S == Range(spaces'[k].merged_from)
                  IN  S \subseteq ids /\ component(S) /\ Cardinality(S) >= 2
            /\ \A k \in 1..Len(spaces) :
                  LET holders == {m \in 1..Len(spaces') :
                                     \/ spaces'[m] = spaces[k]
                                     \/ /\ m \in merged
                                        /\ spaces[k].id \in Range(spaces'[m].merged_from)}
                      alone == \A other \in 1..Len(spaces) :
                                   other # k => ~related(spaces[k].id, spaces[other].id)
                  IN  /\ Cardinality(holders) = 1
                      /\ alone => \E m \in holders : spaces'[m] = spaces[k]
            /\ \A m \in 1..Len(spaces') :
                  m \notin merged => \E k \in 1..Len(spaces) : spaces[k] = spaces'[m]
    ]_vars

\* a merge that replaced a component of three spaces next to a kept space
C14_Witness ==
    /\ stage = "spaces_merged"
    /\ \E k \in 1..Len(spaces) :
          spaces[k].type = "merged" /\ Len(spaces[k].merged_from) = 3
    /\ \E k \in 1..Len(spaces) : spaces[k].type = "unknown"

\* C15: after one merge call on freshly detected spaces, two distinct
\* resulting spaces are joined by an edge of the adjacency graph exactly when
\* an edge from before the call joined a source of one to a source of the
\* other, and the graph has no other edge
C15_AdjacencyFollowsSources ==
    [][merge_fragmented_spaces =>
        /\ \A i \in 1..Len(spaces') : \A j \in 1..Len(spaces') :
              i # j =>
                (HasAdjacency(space_adjacency', spaces'[i].id, spaces'[j].id)
                 <=> \E a \in Sources(spaces'[i]) : \E b \in Sources(spaces'[j]) :
                        HasAdjacency(space_adjacency, a, b))
        /\ \A k \in 1..Len(space_adjacency') :
              \E i \in 1..Len(spaces') : \E j \in 1..Len(spaces') :
                  i # j /\ space_adjacency'[k] = <<spaces'[i].id, spaces'[j].id>>
    ]_vars

\* a merge after which two merged spaces are neighbours, and a merged space
\* and a kept one are
C15_Witness ==
    /\ stage = "spaces_merged"
    /\ \E e \in Range(space_adjacency) :
          SpaceById(spaces, e[1]).type = "merged" /\ SpaceById(spaces, e[2]).type = "merged"
    /\ \E e \in Range(space_adjacency) :
          SpaceById(spaces, e[1]).type # SpaceById(spaces, e[2]).type

\* the voxels of V reached from the voxels in reached over steps of squared
\* index distance at most d2 (1: shared face, 2: shared face or edge)
RECURSIVE ChainReach(_, _, _)
ChainReach(V, reached, d2) ==
    LET next == reached \cup {n \in V : \E v \in reached : Dist2(v, n) <= d2}
    IN  IF next = reached THEN reached ELSE ChainReach(V, next, d2)

Linked(V, d2) == V # {} /\ ChainReach(V, {CHOOSE v \in V : TRUE}, d2) = V

\* C16 as stated: every space of the detector's list, after detect_spaces and
\* after merge_fragmented_spaces, has a voxel set in which any two voxels are
\* linked by a chain of face-sharing voxels of the space
C16_SpacesFaceConnected ==
    \A k \in 1..Len(spaces) : Linked(spaces[k].voxel_indices, 1)

\* C16 amended: the spaces detect_spaces produced, also those a merge keeps,
\* are face-connected; a merged space is not: its sources are linked only
\* through voxels that share an edge
C16_FaceConnectedUnlessMerged ==
    \A k \in 1..Len(spaces) :
        IF spaces[k].type = "merged"
        THEN /\ ~Linked(spaces[k].voxel_indices, 1)
             /\ Linked(spaces[k].voxel_indices, 2)
        ELSE Linked(spaces[k].voxel_indices, 1)

\* a list that holds a merged space and a space kept from detection
C16_Witness ==
    /\ stage = "spaces_merged"
    /\ \E k \in 1..Len(spaces) : spaces[k].type = "merged"
    /\ \E k \in 1..Len(spaces) : spaces[k].type = "unknown" /\ spaces[k].voxel_count > 1

\* ---------------------------------------------------------------------------
\* run_analysis, steps 3 to 5: the detectors' results handed to build_topology
\* ---------------------------------------------------------------------------

NextPipeline == detect_spaces \/ detect_openings \/ build_topology

SpecPipeline == InitGrid /\ [][NextPipeline]_vars

\* C17: once the topology is built, a detected space that lies next to empty
\* voxels the exterior removal consumed has an opening whose other side is the
\* exterior sentinel, and the graph joins it to space_exterior by an edge that
\* is not a repair edge
C17_WindowGivesExteriorEdge ==
    stage \in {"topology_built", "topology_error"} =>
        \A k \in 1..Len(spaces) :
            (\E v \in spaces[k].voxel_indices :
                \E w \in voxel_data.empty \ filled_spaces : Dist2(v, w) <= 2)
            => /\ \E o \in Range(openings) :
                      Range(o.connects) = {spaces[k].id, exterior_id}
               /\ \E e \in Range(graph_edges) :
                      {e.u, e.v} = {spaces[k].id, exterior_id} /\ ~e.is_repair

\* ---------------------------------------------------------------------------
\* detect_openings and build_topology on space lists a caller hands in: rooms
\* cut out of one row of voxels, so that neighbouring rooms share a face
\* ---------------------------------------------------------------------------

MaxSection == 3
MaxRoomLength == 2

\* the rooms of a row: room k takes the next lengths[k] slices along x, each
\* slice a section of ny by nz voxels
RoomRow(ny, nz, lengths, voxel_size) ==
    [k \in 1..Len(lengths) |->
        LET first == 1 + SumSeq(SubSeq(lengths, 1, k - 1))
        IN  SpaceObject({<<x, y, z>> : x \in first..first + lengths[k] - 1,
                                       y \in 1..ny, z \in 1..nz},
                        k - 1, voxel_size)]

\* adjacency graphs over the rooms: any of the pairs i < j, in loop order
RoomAdjacencies(sp) ==
    LET pairs == <<<<1, 2>>, <<2, 3>>, <<1, 3>>>>
        usable == {k \in 1..3 : pairs[k][2] <= Len(sp)}
        edge(k) == <<sp[pairs[k][1]].id, sp[pairs[k][2]].id>>
    IN  {[k \in 1..Len(order) |-> edge(order[k])] :
            order \in {o \in SeqsUpTo(usable, 3) :
                          \A a, b \in 1..Len(o) : a < b => o[a] < o[b]}}

InitOpenings ==
    /\ stage = "spaces_detected"
    /\ \E ny \in 1..MaxSection, nz \in 1..MaxSection, voxel_size \in VoxelSizes :
       \E lengths \in {l \in SeqsUpTo(1..MaxRoomLength, 3) : Len(l) >= 2} :
          /\ spaces = RoomRow(ny, nz, lengths, voxel_size)
          /\ space_adjacency \in RoomAdjacencies(spaces)
          /\ voxel_data = [empty |-> UNION {spaces[k].voxel_indices : k \in 1..Len(spaces)},
                           shape |-> <<3 * MaxRoomLength + 2, MaxSection + 2,
                                       MaxSection + 2>>,
                           base_voxel_size |-> voxel_size]
    /\ filled_spaces = voxel_data.empty
    /\ max_seed_points = 5000
    /\ build_stack = <<>>
    /\ run = 1
    /\ first_run = <<>>
    /\ DataIdle
    /\ openings = <<>>
    /\ graph_nodes = <<>>
    /\ graph_edges = <<>>
    /\ isolated_spaces = <<>>
    /\ ach_rates = <<>>
    /\ updated_rates = <<>>
    /\ ventilation_paths = <<>>

NextOpenings == detect_openings \/ build_topology

SpecOpenings == InitOpenings /\ [][NextOpenings]_vars

\* C18: every opening detect_openings returned names exactly two endpoints,
\* and once build_topology has built the graph from the same space list both
\* endpoints are nodes of it
C18_OpeningEndpointsResolve ==
    /\ stage = "openings_detected" =>
          \A k \in 1..Len(openings) :
              /\ Len(openings[k].connects) = 2
              /\ \A e \in Range(openings[k].connects) :
                    \E i \in 1..Len(spaces) : spaces[i].id = e
    /\ stage \in {"topology_built", "topology_error"} =>
          \A k \in 1..Len(openings) :
              /\ Len(openings[k].connects) = 2
              /\ Range(openings[k].connects) \subseteq Range(graph_nodes)

\* the graph was built from a list in which two openings were detected
C18_Witness ==
    /\ stage = "topology_built"
    /\ Len(openings) = 2
    /\ \A k \in 1..Len(openings) : openings[k].voxel_indices # {}

\* ---------------------------------------------------------------------------
\* Voxelization strategy (voxelizer.py, voxelize and _voxelize_octree)
\* ---------------------------------------------------------------------------

\* config.py "max_memory_usage", in MB
max_memory_usage == 8192

\* psutil.virtual_memory().available, in bytes
AvailableMemory == {2048, 1048576}

\* memory_estimate > min(available_memory * 0.8, self.max_memory)
ExceedsMemory(memory_estimate, available_memory) ==
    \/ 10 * memory_estimate > 8 * available_memory
    \/ memory_estimate \div 1048576 > max_memory_usage
    \/ /\ memory_estimate \div 1048576 = max_memory_usage
       /\ memory_estimate % 1048576 > 0

\* what _voxelize_octree returns: the tree and its leaves, no "voxel_grid";
\* the tree is kept as the occupancy it was built from
voxelize_octree(model) ==
    [octree_root |-> [empty |-> model.empty, shape |-> model.shape],
     base_voxel_size |-> model.base_voxel_size]

\* AdaptiveVoxelizer.voxelize; the dense grid is the occupancy of the mesh at
\* the base voxel size
voxelize ==
    /\ stage = "parsed"
    /\ \E available_memory \in AvailableMemory :
          LET grid_size == parsed_model.shape
              memory_estimate == grid_size[1] * grid_size[2] * grid_size[3] * 3 * 8
          IN  voxel_data' =
                 IF ExceedsMemory(memory_estimate, available_memory)
                 THEN voxelize_octree(parsed_model)
                 ELSE [empty |-> parsed_model.empty, shape |-> parsed_model.shape,
                       base_voxel_size |-> parsed_model.base_voxel_size]
    /\ stage' = "voxelized"
    /\ UNCHANGED <<spaces, openings, ventVars, max_seed_points, build_stack, filled_spaces,
                   space_adjacency, run, first_run, dataVars>>

InitVoxelize ==
    /\ stage = "parsed"
    /\ parsed_model \in [empty : SUBSET FreeVoxels, shape : {<<GridX, GridY, GridZ>>},
                         base_voxel_size : VoxelSizes]
    /\ voxel_data = None
    /\ max_seed_points = 5000
    /\ build_stack = <<>>
    /\ filled_spaces = {}
    /\ space_adjacency = <<>>
    /\ run = 1
    /\ first_run = <<>>
    /\ final_data = None
    /\ result = None
    /\ data = None
    /\ validation = None
    /\ config = DEFAULT_CONFIG
    /\ component_params = ConstructComponents(DEFAULT_CONFIG)
    /\ spaces = <<>>
    /\ openings = <<>>
    /\ graph_nodes = <<>>
    /\ graph_edges = <<>>
    /\ isolated_spaces = <<>>
    /\ ach_rates = <<>>
    /\ updated_rates = <<>>
    /\ ventilation_paths = <<>>

NextVoxelize == voxelize \/ detect_spaces

SpecVoxelize == InitVoxelize /\ [][NextVoxelize]_vars

\* C19: when voxelize fell back to the octree strategy, detect_spaces reports
\* on its result the spaces it reports on the dense grid of the same model
C19_OctreeSpacesAsDense ==
    (stage = "spaces_detected" /\ "octree_root" \in DOMAIN voxel_data) =>
        \E filled \in remove_external_space(parsed_model.empty, parsed_model.shape,
                                            max_seed_points) :
            spaces = ValidSpaces(find_connected_components(filled),
                                 parsed_model.base_voxel_size, <<>>)

\* run_analysis, steps 3 to 5, on the grids of bars
SpecPipelineBars == InitMerge /\ [][NextPipeline]_vars

\* C20: when detect_openings has been called, the space list it was handed
\* holds, for every group of freshly detected spaces that the fragment merge
\* joins, one merged space made from that group
C20_MergedBeforeOpenings ==
    stage \in {"openings_detected", "openings_error", "topology_built", "topology_error"} =>
        LET fresh == ValidSpaces(find_connected_components(filled_spaces),
                                 voxel_data.base_voxel_size, <<>>)
            components ==
                MergeComponents(MergePairs(fresh,
                    detect_space_adjacency(fresh, voxel_data.base_voxel_size),
                    voxel_data.base_voxel_size))
        IN  \A k \in 1..Len(components) :
                \E i \in 1..Len(spaces) :
                    /\ spaces[i].type = "merged"
                    /\ Range(spaces[i].merged_from) = components[k]

\* C21: after build_topology's loop over the openings, two nodes are joined by
\* an edge (other than a repair edge) exactly when some opening names the two
\* of them as its endpoints; the edge lists the IDs of those openings in input
\* order, count is the length of that list and weight is the least of their
\* weights, 1/area for a positive area and 10 otherwise
C21_EdgesFromOpenings ==
    stage \in {"topology_built", "topology_error"} =>
        LET real == {k \in 1..Len(graph_edges) : ~graph_edges[k].is_repair}
            joins(o, u, v) == /\ Len(o.connects) = 2
                              /\ Range(o.connects) = {u, v}
            weight(o) == IF o.area > 0 THEN 10000 \div o.area ELSE 10000
        IN  /\ \A u \in Range(graph_nodes) : \A v \in Range(graph_nodes) :
                  (\E o \in Range(openings) : joins(o, u, v))
                  <=> (\E k \in real : {graph_edges[k].u, graph_edges[k].v} = {u, v})
            /\ \A k \in real : \A l \in real :
                  {graph_edges[k].u, graph_edges[k].v} = {graph_edges[l].u, graph_edges[l].v}
                  => k = l
            /\ \A k \in real :
                  LET e == graph_edges[k]
                      through == SelectSeq(openings, LAMBDA o : joins(o, e.u, e.v))
                  IN  /\ e.openings = [i \in 1..Len(through) |-> through[i].id]
                      /\ e.count = Len(through)
                      /\ \E i \in 1..Len(through) : e.weight = weight(through[i])
                      /\ \A i \in 1..Len(through) : e.weight <= weight(through[i])

\* an edge that carries openings of different areas
C21_Witness ==
    /\ stage \in {"topology_built", "topology_error"}
    /\ \E e \in Range(graph_edges) :
          /\ e.count >= 2
          /\ \E o1 \in Range(openings), o2 \in Range(openings) :
                /\ o1.id = e.openings[1] /\ o2.id = e.openings[2]
                /\ o1.area = 0 /\ o2.area > 0

\* C22: once the repair pass has run, every connected component (of the graph
\* the openings gave) that does not hold space_exterior has exactly one repair
\* edge, from a space of largest volume in it to space_exterior, with weight
\* 2.0, openings ["repair_opening"], opening_types ["repair"] and is_repair
\* set; the component of space_exterior gets no repair edge
C22_RepairEveryComponent ==
    stage = "topology_built" =>
        LET given == SelectSeq(graph_edges, LAMBDA e : ~e.is_repair)
            repairs == {k \in 1..Len(graph_edges) : graph_edges[k].is_repair}
            components == ConnectedComponents(graph_nodes, given, {})
        IN  \A c \in Range(components) :
                LET mine == {k \in repairs : graph_edges[k].u \in c}
                IN  IF exterior_id \in c THEN mine = {}
                    ELSE /\ Cardinality(mine) = 1
                         /\ \A k \in mine :
                               /\ graph_edges[k] = RepairEdge(graph_edges[k].u)
                               /\ \A n \in c : SpaceVolume(spaces, n)
                                                <= SpaceVolume(spaces, graph_edges[k].u)

\* C23: for every stored ventilation path that crosses detected openings only,
\* total_opening_area is the sum of the areas of the openings in its via list
C23_TotalAreaIsSumOfAreas ==
    stage = "ach_done" =>
        \A id \in DOMAIN ventilation_paths :
            \A k \in 1..Len(ventilation_paths[id]) :
                LET path == ventilation_paths[id][k]
                    area(opening_id) ==
                        (CHOOSE o \in Range(openings) : o.id = opening_id).area
                IN  "repair_opening" \notin Range(path.via) =>
                        path.total_opening_area =
                            SumSeq([i \in 1..Len(path.via) |-> area(path.via[i])])

\* ---------------------------------------------------------------------------
\* Resilience probe (topology_builder.py, evaluate_topology_resilience)
\* ---------------------------------------------------------------------------

\* nx.edge_betweenness_centrality(weight='weight') of the edge E[k], up to the
\* common factor of the normalisation: over the pairs of nodes, the share of
\* the shortest weighted paths that use the edge, in sixtieths
EdgeBetweenness(N, E, k) ==
    LET share(s, t) ==
            LET ps == AllSimplePaths(E, s, t, Len(N))
                best == {a \in 1..Len(ps) :
                            \A b \in 1..Len(ps) :
                                RouteWeight(E, ps[a]) <= RouteWeight(E, ps[b])}
                through == {a \in best :
                               \E i \in 1..(Len(ps[a]) - 1) :
                                   {ps[a][i], ps[a][i + 1]} = {E[k].u, E[k].v}}
            IN  IF best = {} THEN 0
                ELSE (60 * Cardinality(through)) \div Cardinality(best)
    IN  SumSeq([p \in 1..(Len(N) * Len(N)) |->
                   LET i == ((p - 1) \div Len(N)) + 1
                       j == ((p - 1) % Len(N)) + 1
                   IN  IF i < j THEN share(N[i], N[j]) ELSE 0])

\* identify_critical_connections: the edges of space_graph.edges() in
\* descending order of betweenness (sorted is stable), the first ten of them
identify_critical_connections(N, E) ==
    LET edges == GraphEdgeList(N, E, {})
        score == [i \in 1..Len(edges) |->
                     EdgeBetweenness(N, E, EdgeIndex(E, edges[i][1], edges[i][2]))]
        place(i) == 1 + Cardinality({j \in 1..Len(edges) :
                                        \/ score[j] > score[i]
                                        \/ score[j] = score[i] /\ j < i})
        sorted_edges == [k \in 1..Len(edges) |->
                            edges[CHOOSE i \in 1..Len(edges) : place(i) = k]]
    IN  Prefix(sorted_edges, 10)

\* remove_edge, then add_edge(u, v, **get_edge_data(u, v, default={})): the
\* edge is gone when its data is read, so it comes back without attributes
RemoveAndRestore(E, u, v) ==
    Append(SelectSeq(E, LAMBDA e : {e.u, e.v} # {u, v}), [u |-> u, v |-> v])

\* the loop over critical_connections[:3]: the graph it leaves and the sum of
\* the changes of the number of components
RECURSIVE ProbeConnections(_, _, _, _)
ProbeConnections(N, E, probed, resilience) ==
    IF Len(probed) = 0 THEN [graph |-> E, resilience |-> resilience]
    ELSE LET u == Head(probed)[1]
             v == Head(probed)[2]
             removed == SelectSeq(E, LAMBDA e : {e.u, e.v} # {u, v})
             change == Len(ConnectedComponents(N, removed, {}))
                          - Len(ConnectedComponents(N, E, {}))
         IN  ProbeConnections(N, RemoveAndRestore(E, u, v), Tail(probed),
                              resilience + change)

\* TopologyBuilder.evaluate_topology_resilience; result holds what it returns
\* (resilience_score is 1 / (1 + resilience))
evaluate_topology_resilience ==
    /\ stage = "topology_built"
    /\ LET critical_connections == identify_critical_connections(graph_nodes, graph_edges)
           probe == ProbeConnections(graph_nodes, graph_edges,
                                     Prefix(critical_connections, 3), 0)
       IN  /\ graph_edges' = probe.graph
           /\ result' = [resilience |-> probe.resilience,
                         critical_connections |-> critical_connections]
    /\ stage' = "resilience_evaluated"
    /\ UNCHANGED <<spaces, openings, graph_nodes, isolated_spaces, ach_rates,
                   ventilation_paths, updated_rates, gridVars, final_data, data,
                   validation, parsed_model, config, component_params>>

NextResilience == build_topology \/ evaluate_topology_resilience

SpecResilience == InitUpdate /\ [][NextResilience]_vars

\* C24: evaluate_topology_resilience leaves the graph as it was: the same
\* edges with the same weight, openings, count, opening_types and is_repair
C24_ResilienceKeepsGraph ==
    [][evaluate_topology_resilience => Range(graph_edges') = Range(graph_edges)]_vars

\* C25: build_topology leaves the opening records it was given as they were:
\* every opening has the same connects list after the call as before it
C25_OpeningsUnchanged ==
    [][build_topology =>
        /\ Len(openings') = Len(openings)
        /\ \A k \in 1..Len(openings) : openings'[k].connects = openings[k].connects
    ]_vars

\* ---------------------------------------------------------------------------
\* Opening classification on its own (opening_detector.py, _classify_openings)
\* ---------------------------------------------------------------------------

MaxClassified == 2

\* openings with features on either side of every threshold
FeatureOpenings ==
    [id : {""}, connects : {<<>>}, state : {"open"},
     type : {"unknown", "passage"},
     area : {10, 20, 21, 50, 51},
     width : {29, 30},
     aspect_ratio : {100, 149, 150, 299, 300}]

\* OpeningDetector._classify_openings over self.openings, called once and
\* then once more on the list it left
classify_openings ==
    /\ stage \in {"openings_found", "classified"}
    /\ openings' = [k \in 1..Len(openings) |-> classify_opening(openings[k])]
    /\ stage' = IF stage = "openings_found" THEN "classified" ELSE "reclassified"
    /\ UNCHANGED <<spaces, ventVars, gridVars, dataVars>>

InitClassify ==
    /\ stage = "openings_found"
    /\ openings \in SeqsUpTo(FeatureOpenings, MaxClassified)
    /\ spaces = <<>>
    /\ graph_nodes = <<>>
    /\ graph_edges = <<>>
    /\ isolated_spaces = <<>>
    /\ ach_rates = <<>>
    /\ updated_rates = <<>>
    /\ ventilation_paths = <<>>
    /\ GridIdle
    /\ DataIdle

SpecClassify == InitClassify /\ [][classify_openings]_vars

\* C26: _classify_openings gives every opening the type of the first rule
\* that matches, in the order standard_door (area <= 2.0 and aspect_ratio >=
\* 1.5), wide_door (area <= 5.0 and width < 3.0), passage (area > 5.0 or
\* aspect_ratio >= 3.0), standard_door; the type is one of the three, follows
\* from area, width and aspect_ratio alone, and classifying the list again
\* changes nothing
C26_FirstMatchingRule ==
    [][classify_openings =>
        /\ Len(openings') = Len(openings)
        /\ \A k \in 1..Len(openings) :
              LET o == openings[k]
                  rule ==
                      IF o.area <= standard_door_area_limit /\ o.aspect_ratio >= 150
                      THEN "standard_door"
                      ELSE IF o.area <= wide_door_area_limit /\ o.width < 30
                      THEN "wide_door"
                      ELSE IF \/ o.area > wide_door_area_limit
                              \/ o.aspect_ratio >= passage_aspect_ratio
                      THEN "passage"
                      ELSE "standard_door"
              IN  /\ openings'[k].type = rule
                  /\ openings'[k].type \in {"standard_door", "wide_door", "passage"}
                  /\ [openings'[k] EXCEPT !.type = o.type] = o
        /\ stage = "classified" => openings' = openings
    ]_vars

\* a list classified twice that holds a door reached through the last rule
\* and a passage
C26_Witness ==
    /\ stage = "reclassified"
    /\ \E k \in 1..Len(openings) :
          /\ openings[k].type = "standard_door"
          /\ openings[k].area > 20
          /\ openings[k].width >= 30
    /\ \E k \in 1..Len(openings) : openings[k].type = "passage"

\* ---------------------------------------------------------------------------
\* The octree recursion (voxelizer.py, _build_octree)
\* ---------------------------------------------------------------------------

\* default of the parameter max_level
max_level == 6

\* half the longest side of the bounding box: a degenerate box, a box that
\* reaches min_voxel_size at level 3, a box that is still larger at level 6
RootHalfSizes == {0, 8, 128}

\* mesh.contains(node_corners): how many of the eight corners it reports
\* inside; the mesh need not be closed, so any answer can follow any other
ContainsAnswers == 0..8

\* Octree(center, half_size, children=[], level, is_leaf=False, is_occupied);
\* pc is "called" until the call has returned
Octree(half_size, level, is_occupied) ==
    [half_size |-> half_size, level |-> level, children |-> 0,
     is_leaf |-> FALSE, is_occupied |-> is_occupied, pc |-> "called"]

\* the first test with the level limit one too high
StopsOneLevelLate(node) ==
    node.level >= max_level + 1 \/ 2 * node.half_size <= min_voxel_size

\* the first test of _build_octree
StopsSubdividing(node) ==
    node.level >= max_level \/ 2 * node.half_size <= min_voxel_size

\* the body of the loop over offsets: one more child appended to the node on
\* top of the stack, and _build_octree called on it
AppendChildAndRecurse(stack) ==
    LET n == Len(stack)
        node == stack[n]
    IN  Append([stack EXCEPT ![n].children = node.children + 1],
               Octree(node.half_size \div 2, node.level + 1, FALSE))

\* _build_octree(node, mesh) up to its return or its first recursive call
build_octree_call ==
    /\ stage = "octree_building"
    /\ build_stack # <<>>
    /\ LET n == Len(build_stack)
           node == build_stack[n]
       IN  /\ node.pc = "called"
           /\ node.is_leaf = FALSE /\ node.children = 0
           /\ IF StopsSubdividing(node)
              THEN build_stack' = [build_stack EXCEPT ![n].is_leaf = TRUE,
                                                      ![n].pc = "returned"]
              ELSE \E contains \in ContainsAnswers :
                      IF contains = 8 \/ contains = 0
                      THEN build_stack' =
                              [build_stack EXCEPT ![n].is_leaf = TRUE,
                                                  ![n].is_occupied = (contains > 0),
                                                  ![n].pc = "returned"]
                      ELSE build_stack' =
                              AppendChildAndRecurse(
                                  [build_stack EXCEPT ![n].is_occupied = TRUE])
    /\ UNCHANGED <<stage, spaces, openings, ventVars, voxel_data, max_seed_points,
                   filled_spaces, space_adjacency, run, first_run, dataVars>>

\* a call returns: the caller's loop goes on to the next offset, or ends
\* after the eighth; the outermost call returns to voxelize_octree
build_octree_return ==
    /\ stage = "octree_building"
    /\ build_stack # <<>>
    /\ build_stack[Len(build_stack)].pc = "returned"
    /\ LET rest == SubSeq(build_stack, 1, Len(build_stack) - 1)
       IN  IF rest = <<>>
           THEN /\ build_stack' = <<>>
                /\ stage' = "octree_built"
           ELSE /\ build_stack' =
                      IF rest[Len(rest)].children < 8
                      THEN AppendChildAndRecurse(rest)
                      ELSE [rest EXCEPT ![Len(rest)].pc = "returned"]
                /\ stage' = stage
    /\ UNCHANGED <<spaces, openings, ventVars, voxel_data, max_seed_points,
                   filled_spaces, space_adjacency, run, first_run, dataVars>>

\* voxelize_octree has made the root node and calls _build_octree on it
InitOctree ==
    /\ stage = "octree_building"
    /\ \E half_size \in RootHalfSizes : build_stack = <<Octree(half_size, 0, TRUE)>>
    /\ voxel_data = None
    /\ max_seed_points = 5000
    /\ filled_spaces = {}
    /\ space_adjacency = <<>>
    /\ run = 1
    /\ first_run = <<>>
    /\ DataIdle
    /\ spaces = <<>>
    /\ openings = <<>>
    /\ graph_nodes = <<>>
    /\ graph_edges = <<>>
    /\ isolated_spaces = <<>>
    /\ ach_rates = <<>>
    /\ updated_rates = <<>>
    /\ ventilation_paths = <<>>

NextOctree == build_octree_call \/ build_octree_return

\* the interpreter goes on running the call
SpecOctree == InitOctree /\ [][NextOctree]_vars /\ WF_vars(NextOctree)

\* C27: whatever mesh.contains answers, _build_octree returns, no node has a
\* level above 6, and a node that is not a leaf has exactly eight children
\* when its call returns (a leaf has none)
C27_OctreeBounded ==
    /\ <>(stage = "octree_built")
    /\ [](\A k \in 1..Len(build_stack) :
             /\ build_stack[k].level <= 6
             /\ build_stack[k].level = k - 1
             /\ build_stack[k].pc = "returned" =>
                   IF build_stack[k].is_leaf
                   THEN build_stack[k].children = 0
                   ELSE build_stack[k].children = 8)

\* a node on level 5 whose eight children, all on level 6, have returned
C27_Witness ==
    /\ Len(build_stack) = 6
    /\ build_stack[6].pc = "returned"
    /\ ~build_stack[6].is_leaf
    /\ build_stack[6].children = 8
    /\ build_stack[6].level = 5

\* C28: on the spaces and the adjacency graph detect_spaces returned for a
\* grid, detect_openings returns an empty opening list: along every edge of
\* the adjacency graph the interface of the two spaces is empty
C28_NoOpeningsBetweenDetectedSpaces ==
    stage \in {"openings_detected", "openings_error"} =>
        /\ stage = "openings_detected"
        /\ openings = <<>>
        /\ \A k \in 1..Len(space_adjacency) :
              \A i, j \in 1..Len(spaces) :
                  (spaces[i].id = space_adjacency[k][1] /\ spaces[j].id = space_adjacency[k][2])
                      => find_space_interface(spaces[i].voxel_indices,
                                              spaces[j].voxel_indices) = {}

\* detect_openings has returned on a list of spaces of which two are adjacent
C28_Witness ==
    /\ stage = "openings_detected"
    /\ Len(spaces) >= 2
    /\ Len(space_adjacency) >= 1
    /\ \E i, j \in 1..Len(spaces) :
          /\ spaces[i].id = space_adjacency[1][1]
          /\ spaces[j].id = space_adjacency[1][2]
          /\ check_spaces_adjacent(spaces[i], spaces[j])

\* ---------------------------------------------------------------------------
\* Configuration overrides (main.py, analyze_with_options)
\* ---------------------------------------------------------------------------

MaxOptionRuns == 2

\* the values an override can give each entry: the default, a smaller and a
\* larger one
OverrideValues ==
    [voxelization |-> [base_voxel_size |-> {8, 16, 32},
                       min_voxel_size |-> {1, min_voxel_size, 4}],
     space_detection |-> [min_space_volume |-> {1, min_space_volume, 10}],
     ventilation |-> [high_ach_rate |-> {5000, high_ach, 20000}]]

\* the entries of the configuration, as (section, key)
ConfigKeys ==
    {sk \in (DOMAIN DEFAULT_CONFIG) \X {"base_voxel_size", "min_voxel_size",
                                        "min_space_volume", "high_ach_rate"} :
        sk[2] \in DOMAIN DEFAULT_CONFIG[sk[1]]}

\* options["config_overrides"]: a value for some of the entries
ConfigOverrides ==
    UNION {{f \in [keys -> UNION {OverrideValues[sk[1]][sk[2]] : sk \in keys}] :
               \A sk \in keys : f[sk] \in OverrideValues[sk[1]][sk[2]]} :
           keys \in SUBSET ConfigKeys}

\* _apply_config_overrides: Config.set(section, key, value) for every entry
apply_config_overrides(cfg, overrides) ==
    [section \in DOMAIN cfg |->
        [key \in DOMAIN cfg[section] |->
            IF <<section, key>> \in DOMAIN overrides
            THEN overrides[<<section, key>>]
            ELSE cfg[section][key]]]

\* SpaceDataGenerator._generate_metadata: the parameters are read from the
\* configuration when the record is generated
generate_metadata(cfg) ==
    [version |-> "1.0",
     parameters |->
        [voxelization |-> [baseSize |-> cfg.voxelization.base_voxel_size,
                           minSize |-> cfg.voxelization.min_voxel_size],
         ventilation |-> [highAch |-> cfg.ventilation.high_ach_rate]]]

\* analyze_with_options on a model file whose analysis succeeds: the overrides
\* are written to the configuration, then run_analysis runs with the
\* components made in __init__; of its results the model keeps the voxel sizes
\* the voxelizer reports and the metadata of the record
analyze_with_options ==
    /\ stage \in {"constructed", "analyzed"}
    /\ run <= MaxOptionRuns
    /\ \E has_overrides \in BOOLEAN, overrides \in ConfigOverrides :
          /\ (~has_overrides) => DOMAIN overrides = {}
          /\ config' = apply_config_overrides(config, overrides)
    /\ voxel_data' = [base_voxel_size |-> component_params.voxelizer.base_voxel_size,
                      min_voxel_size |-> component_params.voxelizer.min_voxel_size]
    /\ final_data' = [metadata |-> generate_metadata(config')]
    /\ result' = [status |-> "success"]
    /\ stage' = "analyzed"
    /\ run' = run + 1
    /\ UNCHANGED <<spaces, openings, ventVars, max_seed_points, build_stack, filled_spaces,
                   space_adjacency, first_run, data, validation, parsed_model,
                   component_params>>

\* PlatformAnalyzer() has been constructed on the default configuration
InitOptions ==
    /\ stage = "constructed"
    /\ spaces = <<>>
    /\ openings = <<>>
    /\ graph_nodes = <<>>
    /\ graph_edges = <<>>
    /\ isolated_spaces = <<>>
    /\ ach_rates = <<>>
    /\ updated_rates = <<>>
    /\ ventilation_paths = <<>>
    /\ voxel_data = None
    /\ max_seed_points = 5000
    /\ build_stack = <<>>
    /\ filled_spaces = {}
    /\ space_adjacency = <<>>
    /\ run = 1
    /\ first_run = <<>>
    /\ DataIdle

SpecOptions == InitOptions /\ [][analyze_with_options]_vars

FragmentVoxels ==
    <<{<<x, 2, 1>> : x \in 1..6},
      {<<x, 1, 1>> : x \in 7..12},
      {<<7, y, 1>> : y \in 3..7},
      {<<x, y, 1>> : x \in 8..10, y \in 8..9},
      {<<x, 10, 1>> : x \in 11..15},
      {<<16, y, 1>> : y \in 4..9}>>

InitRemerge ==
    /\ stage = "voxelized"
    /\ \E chosen \in SUBSET (1..Len(FragmentVoxels)) :
          voxel_data \in [empty : {UNION {FragmentVoxels[k] : k \in chosen}},
                          shape : {<<18, 12, 3>>},
                          base_voxel_size : VoxelSizes]
    /\ max_seed_points = 5000
    /\ build_stack = <<>>
    /\ filled_spaces = {}
    /\ space_adjacency = <<>>
    /\ run = 1
    /\ first_run = <<>>
    /\ DataIdle
    /\ spaces = <<>>
    /\ openings = <<>>
    /\ graph_nodes = <<>>
    /\ graph_edges = <<>>
    /\ isolated_spaces = <<>>
    /\ ach_rates = <<>>
    /\ updated_rates = <<>>
    /\ ventilation_paths = <<>>

NextRemerge == detect_spaces \/ merge_fragmented_spaces \/ merge_fragmented_spaces_again

SpecRemerge == InitRemerge /\ [][NextRemerge]_vars

\* C30: a call of merge_fragmented_spaces, the first or a later one, keeps the
\* adjacency between two spaces it leaves unmerged, also when one of them is a
\* merged space an earlier call made
C30_MergeKeepsOtherAdjacency ==
    [][(merge_fragmented_spaces \/ merge_fragmented_spaces_again) =>
        \A i, j \in 1..Len(spaces) :
            (/\ HasAdjacency(space_adjacency, spaces[i].id, spaces[j].id)
             /\ \E k \in 1..Len(spaces') : spaces'[k] = spaces[i]
             /\ \E k \in 1..Len(spaces') : spaces'[k] = spaces[j])
            => HasAdjacency(space_adjacency', spaces[i].id, spaces[j].id)
    ]_vars

============================================================================
